---- MODULE Spec2Model ----
(***************************************************************************)
(* Model of the acquisition pipeline of src/andor.c (YAndor): the camera   *)
(* object, its pool of frame buffers, the start/stop state machine, the    *)
(* frame wait loop, and the hardware queue they drive through the SDK.     *)
(*                                                                         *)
(* Every built-in is one atomic action.  A handler is written as the       *)
(* composition of its statements over an "environment" record              *)
(*   [cam, hwq, heap, warn, calls, warnings, err, ret, result]             *)
(* in which err # NoError means that y_error() has long-jumped out of the  *)
(* handler, so that the statements which follow are skipped (Then).        *)
(***************************************************************************)
EXTENDS Integers, Sequences, FiniteSets, TLC

(***************************************************************************)
(* Bounds of the model.                                                    *)
(***************************************************************************)
MaxQueueLength == 2   \* largest queue length requested by the caller
MaxFrameSize == 9     \* largest ImageSizeBytes reported by the device
WordBits == 6         \* bits of a long on the narrow hosts
MaxHwQueue == 2       \* cap on the hardware queue when a flush has failed

(***************************************************************************)
(* Program constants.                                                      *)
(***************************************************************************)
NULL == 0
FRAME_ALIGN == 8
LONG_MAX == 2147483647
AT_INFINITE == -1

AT_SUCCESS == "AT_SUCCESS"

\* The codes get_reason() knows by name.
KnownCodes ==
  { "AT_SUCCESS", "AT_ERR_NOTINITIALISED", "AT_ERR_NOTIMPLEMENTED",
    "AT_ERR_READONLY", "AT_ERR_NOTREADABLE", "AT_ERR_NOTWRITABLE",
    "AT_ERR_OUTOFRANGE", "AT_ERR_INDEXNOTAVAILABLE",
    "AT_ERR_INDEXNOTIMPLEMENTED", "AT_ERR_EXCEEDEDMAXSTRINGLENGTH",
    "AT_ERR_CONNECTION", "AT_ERR_NODATA", "AT_ERR_INVALIDHANDLE",
    "AT_ERR_TIMEDOUT" }

get_reason(code) == IF code \in KnownCodes THEN code ELSE "Unknown code"

\* The failure codes the model lets the SDK return: one that get_reason()
\* names and one that it does not.
ErrCodes == { "AT_ERR_NODATA", "AT_ERR_HARDWARE_OVERFLOW" }
Codes == { AT_SUCCESS } \cup ErrCodes

ROUND_UP(a, b) == (((b) - 1 + (a)) \div (b)) * (b)

\* Mutant: the first frame is put at the start of the block, unaligned.
FIRST_FRAME_Unaligned(buffer) == buffer

FIRST_FRAME(buffer) == ROUND_UP(buffer, FRAME_ALIGN)

\* pixel_encoding_table[]: the decoder of row i is extract_<name>; the
\* model names a decoder by the name of its row.
pixel_encoding_table ==
  << "Raw", "Mono8", "Mono12Packed", "Mono12", "Mono16", "Mono32",
     "RGB8Packed", "Mono12Coded", "Mono12codedPacked", "Mono12parallel",
     "Mono12PackedParallel" >>

number_of_pixel_encodings == Len(pixel_encoding_table)

extract_Raw == "Raw"

\* The decoders which warn once, then copy raw.
RawFallbackDecoders ==
  { "RGB8Packed", "Mono12Coded", "Mono12codedPacked", "Mono12parallel",
    "Mono12PackedParallel" }

(***************************************************************************)
(* What the environment can answer.                                        *)
(***************************************************************************)
\* Addresses p_malloc can return: one of each alignment modulo 8.
Bases == 64 .. 71

\* Encodings a device can report: a decoded one, two raw-fallback ones and
\* one which is not in the table.
DeviceEncodings == { "Mono16", "RGB8Packed", "Mono12Coded", "Mono10" }

Geom(size, width, height, stride, aoi) ==
  [size |-> size, width |-> width, height |-> height, stride |-> stride,
   aoi |-> aoi]

\* Configurations of a device: ImageSizeBytes, width, height, AOIStride,
\* and whether it implements the "AOI ..." features.
DeviceGeoms ==
  { Geom(-1, 1, 1, 1, TRUE), Geom(1, 1, 1, 1, TRUE), Geom(8, 2, 2, 4, TRUE),
    Geom(MaxFrameSize, 3, 3, 3, FALSE) }

\* A device which reports images of no byte.
EmptyGeom == Geom(0, 0, 0, 0, FALSE)

FlushCodes == { AT_SUCCESS, "AT_ERR_NODATA" }

Device(name, encs, geoms, mems, sites, codes, push, stray) ==
  [name |-> name, encs |-> encs, geoms |-> geoms, mems |-> mems,
   sites |-> sites, codes |-> codes, push |-> push, stray |-> stray,
   bits |-> 32, overflow |-> "wrap"]

\* The devices and hosts a run can be about.  A run explores one of them:
\*   sizes      every geometry and every answer of the allocator, the SDK
\*              calls succeeding;
\*   faults     one geometry, every SDK call and the interpreter's allocator
\*              being able to fail;
\*   encodings  every encoding, one geometry, the SDK calls succeeding;
\*   empty      images of no byte, the SDK calls succeeding;
\*   stray      AT_WaitBuffer reporting addresses and sizes which are not
\*              those of the buffer it hands over, the SDK calls succeeding;
\*   commands   the caller giving commands by name with Y_andor_command, one
\*              geometry, the queuing, the start, stop and flush calls and
\*              the command passed being able to fail.
\* Their long has 32 bits, which no size of these runs leaves (TLC's own
\* integers have no more).
\* encs, geoms and mems are what the device reports and what p_malloc
\* returns, sites the call sites of start_acquisition which can fail, codes
\* what the flush, stop, queue, open and close calls return, push what the
\* ypush_* functions of the interpreter do, and stray whether AT_WaitBuffer
\* can report another buffer than the oldest one queued.
Devices ==
  { Device("sizes", { "Mono16" }, DeviceGeoms, Bases \cup { NULL }, { },
           { AT_SUCCESS }, { TRUE }, FALSE),
    Device("faults", { "Mono16" }, { Geom(8, 2, 2, 4, TRUE) }, { 64, NULL },
           1 .. 11, FlushCodes, BOOLEAN, FALSE),
    Device("encodings", DeviceEncodings, { Geom(1, 1, 1, 1, TRUE) }, { 64 },
           { }, { AT_SUCCESS }, { TRUE }, FALSE),
    Device("empty", { "Mono16" }, { EmptyGeom }, { 64 }, { },
           { AT_SUCCESS }, { TRUE }, FALSE),
    Device("stray", { "Mono16" }, { Geom(8, 2, 2, 4, TRUE), EmptyGeom },
           { 99 }, { }, { AT_SUCCESS }, { TRUE }, TRUE),
    Device("commands", { "Mono16" }, { Geom(8, 2, 2, 4, TRUE) }, { 64 },
           { 9, 11 }, FlushCodes, { TRUE }, FALSE) }

\* The arithmetic of a long of d.bits bits.  An operation whose result is
\* not a long is undefined: the build either keeps its low bits
\* (d.overflow = "wrap") or ends the process (d.overflow = "trap").
LongMax(d) == IF d.bits = 32 THEN LONG_MAX ELSE 2 ^ (d.bits - 1) - 1
LongMin(d) == -LongMax(d) - 1
InLong(d, x) == LongMin(d) <= x /\ x <= LongMax(d)

Wrap(d, x) ==
  IF InLong(d, x) THEN x
  ELSE ((x - LongMin(d)) % (2 ^ d.bits)) + LongMin(d)

\* (size_t)x for a long x
ToSize(d, x) == IF x >= 0 THEN x ELSE x + 2 ^ d.bits

\* a / b in C, for b > 0: the quotient is truncated towards zero.
CDiv(a, b) == IF a >= 0 THEN a \div b ELSE -((-a) \div b)

\* Configurations of a device on a narrow host: frames of one byte, of one
\* stride, of a quarter of the word, of LONG_MAX bytes, and one byte more.
NarrowGeoms ==
  { Geom(size, 1, 1, 1, FALSE) :
      size \in { 1, FRAME_ALIGN, 2 ^ (WordBits - 2), 2 ^ (WordBits - 1) - 1,
                 2 ^ (WordBits - 1) } }

\* Hosts whose long has WordBits bits, one for each thing the build does of
\* an overflow; every SDK call and every allocation succeeds.
NarrowHosts ==
  { [Device(name, { "Mono16" }, NarrowGeoms, { FRAME_ALIGN }, { },
            { AT_SUCCESS }, { TRUE }, FALSE)
       EXCEPT !.bits = WordBits, !.overflow = name] :
      name \in { "wrap", "trap" } }

(***************************************************************************)
(* State.                                                                  *)
(***************************************************************************)
VARIABLES
  dev,       \* the device and host of the run, one of Devices
  cam,       \* struct _camera
  hwq,       \* buffers queued with the hardware, oldest first: <<ptr, size>>
  heap,      \* addresses of the live p_malloc blocks
  warn,      \* the decoders whose static "warn" flag is still TRUE
  op,        \* the built-in which ran last
  calls,     \* the SDK, allocator and argument calls it made, in order
  warnings,  \* the warnings it printed, in order
  err,       \* the error it raised (NoError if none)
  result,    \* what it pushed on the stack
  frame      \* the image in the buffer handed over, where a run follows it

vars ==
  << dev, cam, hwq, heap, warn, op, calls, warnings, err, result, frame >>

NoError == << >>
NoResult == << >>

\* An image: the samples the sensor has read, row by row, and the bytes the
\* hardware has written for them.  The runs which follow the buffers and
\* not what is in them keep no image.
Image(pixels, bytes) == [pixels |-> pixels, bytes |-> bytes]
NoFrame == Image(<< >>, << >>)

\* A call of the SDK or of the allocator: its name with the address, the
\* size and the timeout it is given (or, for p_malloc and AT_WaitBuffer, the
\* address and size it gives back), 0 where it has none, the code it
\* returns (AT_SUCCESS for the calls which return none), and the string it
\* gives back ("" if none).  A feature read gives its value back as size.
Call(fn, ptr, size, timeout) ==
  [fn |-> fn, ptr |-> ptr, size |-> size, timeout |-> timeout,
   code |-> AT_SUCCESS, text |-> ""]

Returned(c, code) == [c EXCEPT !.code = code]

\* The environment a built-in starts from.
Enter ==
  [cam |-> cam, hwq |-> hwq, heap |-> heap, warn |-> warn,
   calls |-> << >>, warnings |-> << >>, err |-> NoError, ret |-> 0,
   result |-> NoResult]

\* The state a built-in leaves.
Leave(name, s) ==
  /\ dev' = dev
  /\ cam' = s.cam
  /\ hwq' = s.hwq
  /\ heap' = s.heap
  /\ warn' = s.warn
  /\ op' = name
  /\ calls' = s.calls
  /\ warnings' = s.warnings
  /\ err' = s.err
  /\ result' = s.result
  /\ frame' = frame

Log(s, c) == [s EXCEPT !.calls = Append(@, c)]

\* A warning is kept as its format string and its argument ("" if none).
warning(s, message, arg) ==
  [s EXCEPT !.warnings = Append(@, << message, arg >>)]

y_error(s, message) == [s EXCEPT !.err = << message >>]

throw(s, descr, code) ==
  IF code # AT_SUCCESS
  THEN [s EXCEPT !.err = << "failure in", descr, get_reason(code) >>]
  ELSE s

\* Sequencing: F runs only if no error has been raised before it.
Then(s, F(_)) == IF s.err # NoError THEN s ELSE F(s)

(***************************************************************************)
(* The SDK and the allocator, as the handlers use them.                    *)
(***************************************************************************)
AT_Flush(s, code) ==
  LET t == Log(s, Returned(Call("AT_Flush", NULL, 0, 0), code))
  IN  IF code = AT_SUCCESS THEN [t EXCEPT !.hwq = << >>] ELSE t

AT_QueueBuffer(s, ptr, size, code) ==
  LET t == Log(s, Returned(Call("AT_QueueBuffer", ptr, size, 0), code))
  IN  IF code = AT_SUCCESS
      THEN [t EXCEPT !.hwq = Append(@, << ptr, size >>)]
      ELSE t

\* A call which changes nothing the model keeps (feature get/set, command).
AT_Call(s, fn, code) == Log(s, Returned(Call(fn, NULL, 0, 0), code))

\* AT_GetInt: the value of the feature, which is read only on success.
AT_GetInt(s, fn, value, code) ==
  Log(s, Returned(Call(fn, NULL, IF code = AT_SUCCESS THEN value ELSE 0, 0),
                  code))

\* AT_GetEnumStringByIndex: the name of the entry, read only on success.
AT_GetEnumStringByIndex(s, fn, string, code) ==
  Log(s, [Returned(Call(fn, NULL, 0, 0), code)
            EXCEPT !.text = IF code = AT_SUCCESS THEN string ELSE ""])

p_free(s, ptr) ==
  [Log(s, Call("p_free", ptr, 0, 0)) EXCEPT !.heap = @ \ { ptr }]

\* res is the address returned, NULL when the allocation fails.
p_malloc(s, size, res) ==
  [Log(s, Call("p_malloc", res, size, 0))
     EXCEPT !.heap = IF res = NULL THEN @ ELSE @ \cup { res },
            !.ret = res]

(***************************************************************************)
(* start_acquisition and its helpers.                                      *)
(*                                                                         *)
(* The answers of the device during one start are the record "in":         *)
(*   enc     the PixelEncoding string,                                     *)
(*   geom    the geometry configured in the device,                        *)
(*   failAt  the call site whose SDK call fails (0: none), code its code,  *)
(*   qfail   when failAt = SiteQueue, the slot whose queuing fails,        *)
(*   flush1  the code of the flush before the geometry is read,            *)
(*   flush2  the code of the flush on an error path,                       *)
(*   mem     what p_malloc returns.                                        *)
(* The first failing call decides what follows, so that one failing site   *)
(* per start covers every combination of return codes.                     *)
(***************************************************************************)
SiteEnumIndex == 1
SiteEnumString == 2
SiteFrameSize == 3
SiteWidthImpl == 4
SiteWidth == 5
SiteHeightImpl == 6
SiteHeight == 7
SiteRowStride == 8
SiteQueue == 9
SiteCycleMode == 10
SiteStart == 11

CodeAt(in, site) == IF in.failAt = site THEN in.code ELSE AT_SUCCESS

\* The loop over pixel_encoding_table: first row whose name is the string
\* (equal strings have equal first characters), -1 if there is none.
RECURSIVE table_search(_, _)
table_search(i, pixel_encoding) ==
  IF i > number_of_pixel_encodings THEN -1
  ELSE IF pixel_encoding_table[i] = pixel_encoding THEN i
  ELSE table_search(i + 1, pixel_encoding)

\* Mutant: an encoding which is not in the table is given the first row.
get_pixel_encoding_Default(s, in) ==
  LET c1 == CodeAt(in, SiteEnumIndex)
      c2 == CodeAt(in, SiteEnumString)
      s1 == throw(AT_Call(s, "AT_GetEnumIndex PixelEncoding", c1),
                  "AT_GetEnumIndex \"PixelEncoding\"", c1)
      GetString(t) ==
        throw(AT_GetEnumStringByIndex(t, "AT_GetEnumStringByIndex PixelEncoding",
                                      in.enc, c2),
              "AT_GetEnumStringByIndex \"PixelEncoding\"", c2)
      Search(t) == [t EXCEPT !.ret = IF table_search(1, in.enc) = -1 THEN 1
                                     ELSE table_search(1, in.enc)]
  IN  Then(Then(s1, GetString), Search)

get_pixel_encoding(s, in) ==
  LET c1 == CodeAt(in, SiteEnumIndex)
      c2 == CodeAt(in, SiteEnumString)
      s1 == throw(AT_Call(s, "AT_GetEnumIndex PixelEncoding", c1),
                  "AT_GetEnumIndex \"PixelEncoding\"", c1)
      GetString(t) ==
        throw(AT_GetEnumStringByIndex(t, "AT_GetEnumStringByIndex PixelEncoding",
                                      in.enc, c2),
              "AT_GetEnumStringByIndex \"PixelEncoding\"", c2)
      Search(t) == [t EXCEPT !.ret = table_search(1, in.enc)]
  IN  Then(Then(s1, GetString), Search)

\* Mutant: the frame size of the previous start is used if there is one.
get_frame_size_Cached(s, in) ==
  IF s.cam.frame_size > 0 THEN [s EXCEPT !.ret = s.cam.frame_size]
  ELSE
    LET c == CodeAt(in, SiteFrameSize)
        s1 == throw(AT_GetInt(s, "AT_GetInt ImageSizeBytes", in.geom.size, c),
                    "AT_GetInt \"ImageSizeBytes\"", c)
        Check(t) ==
          IF in.geom.size < 0 \/ in.geom.size > LongMax(dev)
          THEN y_error(t, "invalid frame size")
          ELSE [t EXCEPT !.ret = in.geom.size]
    IN  Then(s1, Check)

get_frame_size(s, in) ==
  LET c == CodeAt(in, SiteFrameSize)
      s1 == throw(AT_GetInt(s, "AT_GetInt ImageSizeBytes", in.geom.size, c),
                  "AT_GetInt \"ImageSizeBytes\"", c)
      Check(t) ==
        IF in.geom.size < 0 \/ in.geom.size > LongMax(dev)
        THEN y_error(t, "invalid frame size")
        ELSE [t EXCEPT !.ret = in.geom.size]
  IN  Then(s1, Check)

get_frame_width(s, in) ==
  LET c1 == CodeAt(in, SiteWidthImpl)
      c2 == CodeAt(in, SiteWidth)
      s1 == throw(AT_Call(s, "AT_IsImplemented AOI Width", c1),
                  "AT_IsImplemented \"AOI Width\"", c1)
      Get(t) ==
        throw(AT_GetInt(t, IF in.geom.aoi THEN "AT_GetInt AOI Width"
                                     ELSE "AT_GetInt Sensor Width",
                        in.geom.width, c2),
              IF in.geom.aoi THEN "AT_GetInt \"AOI Width\""
                        ELSE "AT_GetInt \"Sensor Width\"", c2)
      Check(t) ==
        IF in.geom.width < 0 \/ in.geom.width > LongMax(dev)
        THEN y_error(t, "invalid frame width")
        ELSE [t EXCEPT !.ret = in.geom.width]
  IN  Then(Then(s1, Get), Check)

get_frame_height(s, in) ==
  LET c1 == CodeAt(in, SiteHeightImpl)
      c2 == CodeAt(in, SiteHeight)
      s1 == throw(AT_Call(s, "AT_IsImplemented AOI Height", c1),
                  "AT_IsImplemented \"AOI Height\"", c1)
      Get(t) ==
        throw(AT_GetInt(t, IF in.geom.aoi THEN "AT_GetInt AOI Height"
                                     ELSE "AT_GetInt Sensor Height",
                        in.geom.height, c2),
              IF in.geom.aoi THEN "AT_GetInt \"AOI Height\""
                        ELSE "AT_GetInt \"Sensor Height\"", c2)
      Check(t) ==
        IF in.geom.height < 0 \/ in.geom.height > LongMax(dev)
        THEN y_error(t, "invalid frame height")
        ELSE [t EXCEPT !.ret = in.geom.height]
  IN  Then(Then(s1, Get), Check)

get_row_stride(s, in) ==
  LET c == CodeAt(in, SiteRowStride)
      s1 == throw(AT_GetInt(s, "AT_GetInt AOIStride", in.geom.stride, c),
                  "AT_GetInt \"AOIStride\"", c)
      Check(t) ==
        IF in.geom.stride < 0 \/ in.geom.stride > LongMax(dev)
        THEN y_error(t, "invalid row stride")
        ELSE [t EXCEPT !.ret = in.geom.stride]
  IN  Then(s1, Check)

\* Mutant: the frames are put one right after the other.
FrameStride_Unrounded(frame_size) == frame_size

\* frame_stride and buffer_size as start_acquisition computes them.
\* ROUND_UP(cam->frame_size, FRAME_ALIGN) in the arithmetic of a long.
FrameStride(frame_size) ==
  Wrap(dev, CDiv(Wrap(dev, (FRAME_ALIGN - 1) + frame_size), FRAME_ALIGN)
              * FRAME_ALIGN)

\* Mutant: no room is left for the alignment of the first frame.
BufferSize_NoSlack(frame_size, queue_length) ==
  FrameStride(frame_size) * queue_length

BufferSize(frame_size, queue_length) ==
  Wrap(dev, (FRAME_ALIGN - 1)
              + Wrap(dev, FrameStride(frame_size) * queue_length))

\* Does one of the operations which compute the two sizes leave the long?
LongOverflow(frame_size, queue_length) ==
  \/ ~InLong(dev, (FRAME_ALIGN - 1) + frame_size)
  \/ ~InLong(dev, FrameStride(frame_size) * queue_length)
  \/ ~InLong(dev, (FRAME_ALIGN - 1)
                    + Wrap(dev, FrameStride(frame_size) * queue_length))

\* The process is ended by a signal: its memory and its handles are gone.
Trap(s) ==
  [s EXCEPT !.err = << "SIGABRT" >>, !.hwq = << >>, !.heap = { },
            !.cam.initialized = FALSE, !.cam.acquiring = FALSE,
            !.cam.buffer = NULL, !.cam.buffer_size = 0]

\* Mutant: a pool which is held is kept whatever its size.
ensure_buffer_KeepOld(s, in) ==
  LET buffer_size == BufferSize(s.cam.frame_size, s.cam.queue_length)
  IN  IF s.cam.buffer # NULL /\ s.cam.buffer_size > 0 THEN s
      ELSE [p_malloc(s, buffer_size, in.mem)
              EXCEPT !.cam.buffer = in.mem, !.cam.buffer_size = buffer_size]

\* "Create queue of frame buffers": reuse, or free and allocate, the pool.
ensure_buffer(s, in) ==
  LET buffer_size == BufferSize(s.cam.frame_size, s.cam.queue_length)
      s1 == IF s.cam.buffer # NULL /\ s.cam.buffer_size > 0
            THEN IF buffer_size # s.cam.buffer_size
                 THEN p_free([s EXCEPT !.cam.buffer = NULL,
                                       !.cam.buffer_size = 0],
                             s.cam.buffer)
                 ELSE s
            ELSE [s EXCEPT !.cam.buffer = NULL, !.cam.buffer_size = 0]
  IN  IF LongOverflow(s.cam.frame_size, s.cam.queue_length)
         /\ dev.overflow = "trap"
      THEN Trap(s)
      ELSE IF buffer_size # s1.cam.buffer_size
      THEN [p_malloc(s1, ToSize(dev, buffer_size), in.mem)
              EXCEPT !.cam.buffer = in.mem,
                     !.cam.buffer_size = buffer_size]
      ELSE s1

\* Mutant: the buffers in use are flushed once the slots are queued.
RECURSIVE queue_buffers_FlushLast(_, _, _, _)
queue_buffers_FlushLast(s, in, k, frame_ptr) ==
  IF s.err # NoError THEN s
  ELSE IF ~(k < s.cam.queue_length) THEN AT_Flush(s, in.flush1)
  ELSE LET code == IF in.qfail = k THEN CodeAt(in, SiteQueue)
                                   ELSE AT_SUCCESS
           s1 == AT_QueueBuffer(s, frame_ptr, s.cam.frame_size, code)
           s2 == IF code # AT_SUCCESS
                 THEN throw(AT_Flush(s1, in.flush2), "AT_QueueBuffer", code)
                 ELSE s1
       IN  queue_buffers_FlushLast(s2, in, k + 1,
                                   frame_ptr + FrameStride(s.cam.frame_size))

\* "Queue the buffers": the loop from slot k on, frame_ptr being its address.
RECURSIVE queue_buffers(_, _, _, _)
queue_buffers(s, in, k, frame_ptr) ==
  IF s.err # NoError \/ ~(k < s.cam.queue_length) THEN s
  ELSE LET code == IF in.qfail = k THEN CodeAt(in, SiteQueue)
                                   ELSE AT_SUCCESS
           s1 == AT_QueueBuffer(s, frame_ptr, s.cam.frame_size, code)
           s2 == IF code # AT_SUCCESS
                 THEN throw(AT_Flush(s1, in.flush2), "AT_QueueBuffer", code)
                 ELSE s1
       IN  queue_buffers(s2, in, k + 1,
                         frame_ptr + FrameStride(s.cam.frame_size))

\* start_acquisition once its arguments are checked.
start_steps(s, in) ==
    LET SetExtract(t) ==
          IF t.ret = -1
          THEN [warning(t, "Unknown pixel encoding.", "")
                  EXCEPT !.cam.extract = extract_Raw]
          ELSE [t EXCEPT !.cam.extract = pixel_encoding_table[t.ret]]
        Flush(t) == AT_Flush(t, in.flush1)
        GetSize(t) == get_frame_size(t, in)
        SetSize(t) == [t EXCEPT !.cam.frame_size = t.ret]
        GetWidth(t) == get_frame_width(t, in)
        SetWidth(t) == [t EXCEPT !.cam.frame_width = t.ret]
        GetHeight(t) == get_frame_height(t, in)
        SetHeight(t) == [t EXCEPT !.cam.frame_height = t.ret]
        GetStride(t) == get_row_stride(t, in)
        SetStride(t) == [t EXCEPT !.cam.row_stride = t.ret]
        Pool(t) == ensure_buffer(t, in)
        Queue(t) == queue_buffers(t, in, 0, FIRST_FRAME(t.cam.buffer))
        CycleMode(t) ==
          LET code == CodeAt(in, SiteCycleMode)
              t1 == AT_Call(t, "AT_SetEnumString CycleMode Continuous", code)
          IN  IF code # AT_SUCCESS
              THEN throw(AT_Flush(t1, in.flush2),
                         "AT_SetEnumString \"CycleMode\" \"Continuous\"",
                         code)
              ELSE t1
        Command(t) ==
          LET code == CodeAt(in, SiteStart)
              t1 == AT_Call(t, "AT_Command AcquisitionStart", code)
          IN  IF code # AT_SUCCESS
              THEN throw(AT_Flush(t1, in.flush2),
                         "AT_Command \"AcquisitionStart\"", code)
              ELSE t1
        SetAcquiring(t) == [t EXCEPT !.cam.acquiring = TRUE]
        s01 == Then(get_pixel_encoding(s, in), SetExtract)
        s02 == Then(s01, Flush)
        s03 == Then(Then(s02, GetSize), SetSize)
        s04 == Then(Then(s03, GetWidth), SetWidth)
        s05 == Then(Then(s04, GetHeight), SetHeight)
        s06 == Then(Then(s05, GetStride), SetStride)
        s07 == Then(s06, Pool)
        s08 == Then(s07, Queue)
        s09 == Then(s08, CycleMode)
        s10 == Then(s09, Command)
    IN  Then(s10, SetAcquiring)

\* Mutant: a start on a camera which is acquiring starts it again.
start_acquisition_NoCheck(s, in) ==
  IF s.cam.queue_length <= 0 THEN y_error(s, "set queue length first")
  ELSE start_steps(s, in)

\* Mutant: a start does not look at the queue length.
start_acquisition_NoLength(s, in) ==
  IF s.cam.acquiring THEN warning(s, "Camera already acquiring.", "")
  ELSE start_steps(s, in)

start_acquisition(s, in) ==
  IF s.cam.acquiring THEN warning(s, "Camera already acquiring.", "")
  ELSE IF s.cam.queue_length <= 0 THEN y_error(s, "set queue length first")
  ELSE start_steps(s, in)

\* Mutant: a stop command which fails raises an error and stops there.
stop_acquisition_Strict(s, final, code1, code2) ==
  IF ~s.cam.acquiring THEN warning(s, "Camera not acquiring.", "")
  ELSE
    LET s1 == throw(AT_Call(s, "AT_Command AcquisitionStop", code1),
                    "AT_Command \"AcquisitionStop\"", code1)
        Flush(t) == [AT_Flush(t, code2) EXCEPT !.cam.acquiring = FALSE]
    IN  Then(s1, Flush)

\* Mutant: a stop warns of its failures whatever final is.
stop_acquisition_Loud(s, final, code1, code2) ==
  IF ~s.cam.acquiring THEN warning(s, "Camera not acquiring.", "")
  ELSE
    LET s1 == AT_Call(s, "AT_Command AcquisitionStop", code1)
        s2 == IF code1 # AT_SUCCESS
              THEN warning(s1, "Failure of AT_Command \"AcquisitionStop\" (%s).",
                         get_reason(code1))
              ELSE s1
        s3 == AT_Flush(s2, code2)
        s4 == IF code2 # AT_SUCCESS
              THEN warning(s3, "Failure of AT_Flush (%s).", get_reason(code2))
              ELSE s3
    IN  [s4 EXCEPT !.cam.acquiring = FALSE]

\* Mutant: a stop does not look at whether the camera is acquiring.
stop_acquisition_NoCheck(s, final, code1, code2) ==
  LET s1 == AT_Call(s, "AT_Command AcquisitionStop", code1)
      s2 == IF code1 # AT_SUCCESS /\ ~final
            THEN warning(s1, "Failure of AT_Command \"AcquisitionStop\" (%s).",
                         get_reason(code1))
            ELSE s1
      s3 == AT_Flush(s2, code2)
      s4 == IF code2 # AT_SUCCESS /\ ~final
            THEN warning(s3, "Failure of AT_Flush (%s).", get_reason(code2))
            ELSE s3
  IN  [s4 EXCEPT !.cam.acquiring = FALSE]

stop_acquisition(s, final, code1, code2) ==
  IF ~s.cam.acquiring THEN warning(s, "Camera not acquiring.", "")
  ELSE
    LET s1 == AT_Call(s, "AT_Command AcquisitionStop", code1)
        s2 == IF code1 # AT_SUCCESS /\ ~final
              THEN warning(s1, "Failure of AT_Command \"AcquisitionStop\" (%s).",
                         get_reason(code1))
              ELSE s1
        s3 == AT_Flush(s2, code2)
        s4 == IF code2 # AT_SUCCESS /\ ~final
              THEN warning(s3, "Failure of AT_Flush (%s).", get_reason(code2))
              ELSE s3
    IN  [s4 EXCEPT !.cam.acquiring = FALSE]

(***************************************************************************)
(* The frame wait loop.                                                    *)
(*                                                                         *)
(* The answers of the environment during one wait are the record "in":     *)
(*   timeout the caller's timeout,                                         *)
(*   code    the code of AT_WaitBuffer,                                    *)
(*   ptr, size  the buffer AT_WaitBuffer reports,                          *)
(*   rem     what a remainder by a zero frame stride does (undefined),     *)
(*   push    whether the interpreter can make the array of the decoder,    *)
(*   qcode   the code of the AT_QueueBuffer which re-queues the buffer.    *)
(***************************************************************************)
check_frame(s, frame_ptr, frame_size, in) ==
  LET base == ROUND_UP(s.cam.buffer, FRAME_ALIGN)
      end == s.cam.buffer + s.cam.buffer_size
      s1 == IF frame_size # s.cam.frame_size
            THEN warning(s, "frame_size (%d) != cam->frame_size (%ld).", "")
            ELSE s
  IN  IF frame_ptr < base \/ frame_ptr >= end
      THEN warning(s1, "Returned frame address is outside our buffers.", "")
      ELSE LET offset == frame_ptr - base
               frame_stride == ROUND_UP(s.cam.frame_size, FRAME_ALIGN)
               misaligned == "Returned frame is not aligned with one of our buffers."
           IN  IF frame_stride = 0
               THEN \* offset % 0 is undefined: a trap, or any remainder
                    CASE in.rem = "trap" -> y_error(s1, "SIGFPE")
                      [] in.rem = "zero" -> s1
                      [] OTHER -> warning(s1, misaligned, "")
               ELSE IF offset % frame_stride # 0
                    THEN warning(s1, misaligned, "")
                    ELSE s1

\* What a decoder pushes: the decoder which made the array, the frame it
\* read and the number of bytes of the frame.
Decoded(kind, src, size) == [kind |-> kind, src |-> src, size |-> size]

extract_Raw_(s, src, in) ==
  IF in.push THEN [s EXCEPT !.result = Decoded("Raw", src, s.cam.frame_size)]
  ELSE y_error(s, "ypush: memory manager failed")

\* Mutant: the warning is printed for every frame.
extract_fallback_EveryFrame(s, FORMAT, src, in) ==
  extract_Raw_(warning(s, "%s pixels will be extracted as raw data.", FORMAT),
               src, in)

\* extract_RGB8Packed ... extract_Mono12PackedParallel
extract_fallback(s, FORMAT, src, in) ==
  LET s1 == IF FORMAT \in s.warn
            THEN [warning(s, "%s pixels will be extracted as raw data.",
                          FORMAT)
                    EXCEPT !.warn = @ \ { FORMAT }]
            ELSE s
  IN  extract_Raw_(s1, src, in)

\* extract_Mono8 ... extract_Mono32 and extract_Mono12Packed
extract_pixels(s, NAME, src, in) ==
  IF in.push THEN [s EXCEPT !.result = Decoded(NAME, src, s.cam.frame_size)]
  ELSE y_error(s, "ypush: memory manager failed")

\* cam->extract(cam, src)
extract(s, src, in) ==
  CASE s.cam.extract = extract_Raw -> extract_Raw_(s, src, in)
    [] s.cam.extract \in RawFallbackDecoders ->
         extract_fallback(s, s.cam.extract, src, in)
    [] OTHER -> extract_pixels(s, s.cam.extract, src, in)

\* AT_WaitBuffer hands over the oldest queued buffer and reports it as
\* <<ptr, size>>; when it fails, nothing leaves the queue.
AT_WaitBuffer(s, ptr, size, timeout, code) ==
  IF code = AT_SUCCESS
  THEN [Log(s, Call("AT_WaitBuffer", ptr, size, timeout))
          EXCEPT !.hwq = Tail(@)]
  ELSE Log(s, Returned(Call("AT_WaitBuffer", NULL, 0, timeout), code))

\* Mutant: a wait which fails gives the acquisition up and flushes.
Y_andor_wait_image_GiveUp(s, in) ==
  IF ~s.cam.acquiring THEN y_error(s, "camera is not acquiring")
  ELSE
    LET timeout == IF in.timeout < 0 THEN AT_INFINITE ELSE in.timeout
        s0 == AT_WaitBuffer(s, in.ptr, in.size, timeout, in.code)
        s1 == throw(IF in.code # AT_SUCCESS
                    THEN [AT_Flush(s0, AT_SUCCESS)
                            EXCEPT !.cam.acquiring = FALSE]
                    ELSE s0,
                    "AT_WaitBuffer", in.code)
        Check(t) == check_frame(t, in.ptr, in.size, in)
        Extract(t) == IF t.cam.extract # "NULL"
                      THEN extract(t, in.ptr, in)
                      ELSE t
        Requeue(t) == throw(AT_QueueBuffer(t, in.ptr, in.size, in.qcode),
                            "AT_QueueBuffer", in.qcode)
    IN  Then(Then(Then(s1, Check), Extract), Requeue)

\* Mutant: a wait whose re-queuing fails flushes and stops the acquisition.
Y_andor_wait_image_Abort(s, in) ==
  IF ~s.cam.acquiring THEN y_error(s, "camera is not acquiring")
  ELSE
    LET timeout == IF in.timeout < 0 THEN AT_INFINITE ELSE in.timeout
        s1 == throw(AT_WaitBuffer(s, in.ptr, in.size, timeout, in.code),
                    "AT_WaitBuffer", in.code)
        Check(t) == check_frame(t, in.ptr, in.size, in)
        Extract(t) == IF t.cam.extract # "NULL"
                      THEN extract(t, in.ptr, in)
                      ELSE t
        Requeue(t) ==
          LET t1 == AT_QueueBuffer(t, in.ptr, in.size, in.qcode)
          IN  IF in.qcode # AT_SUCCESS
              THEN throw([AT_Flush(t1, AT_SUCCESS)
                            EXCEPT !.cam.acquiring = FALSE],
                         "AT_QueueBuffer", in.qcode)
              ELSE t1
    IN  Then(Then(Then(s1, Check), Extract), Requeue)

\* Mutant: a wait does not look at whether the camera is acquiring.
Y_andor_wait_image_NoCheck(s, in) ==
  LET timeout == IF in.timeout < 0 THEN AT_INFINITE ELSE in.timeout
      s1 == throw(AT_WaitBuffer(s, in.ptr, in.size, timeout, in.code),
                  "AT_WaitBuffer", in.code)
      Check(t) == check_frame(t, in.ptr, in.size, in)
      Extract(t) == IF t.cam.extract # "NULL"
                    THEN extract(t, in.ptr, in)
                    ELSE t
      Requeue(t) == throw(AT_QueueBuffer(t, in.ptr, in.size, in.qcode),
                          "AT_QueueBuffer", in.qcode)
  IN  Then(Then(Then(s1, Check), Extract), Requeue)

Y_andor_wait_image(s, in) ==
  IF ~s.cam.acquiring THEN y_error(s, "camera is not acquiring")
  ELSE
    LET timeout == IF in.timeout < 0 THEN AT_INFINITE ELSE in.timeout
        s1 == throw(AT_WaitBuffer(s, in.ptr, in.size, timeout, in.code),
                    "AT_WaitBuffer", in.code)
        Check(t) == check_frame(t, in.ptr, in.size, in)
        Extract(t) == IF t.cam.extract # "NULL"
                      THEN extract(t, in.ptr, in)
                      ELSE t
        Requeue(t) == throw(AT_QueueBuffer(t, in.ptr, in.size, in.qcode),
                            "AT_QueueBuffer", in.qcode)
    IN  Then(Then(Then(s1, Check), Extract), Requeue)

\* get_long(iarg): the argument the caller has put on the stack.
get_long(s, value) == Log(s, Call("get_long", NULL, value, 0))

\* Mutant: the queue length can be set while the camera is acquiring.
Y_andor_set_queue_length_Anytime(s, queue_length) ==
  LET s1 == get_long(s, queue_length)
  IN  IF queue_length < 1 THEN y_error(s1, "queue length must be >= 1")
      ELSE [s1 EXCEPT !.cam.queue_length = queue_length]

Y_andor_set_queue_length(s, queue_length) ==
  LET s1 == get_long(s, queue_length)
  IN  IF queue_length < 1 THEN y_error(s1, "queue length must be >= 1")
      ELSE IF s1.cam.acquiring THEN y_error(s1, "acquisition is acquiring")
      ELSE [s1 EXCEPT !.cam.queue_length = queue_length]

(***************************************************************************)
(* Y_andor_command.                                                        *)
(*                                                                         *)
(* C strings are TLA+ strings; a NULL string is the empty tuple and a      *)
(* string which is not NULL a tuple of one string.                         *)
(***************************************************************************)
\* strncmp(s1, s2, n) == 0
strncmp(s1, s2, n) ==
  LET n1 == IF Len(s1) < n THEN Len(s1) ELSE n
      n2 == IF Len(s2) < n THEN Len(s2) ELSE n
  IN  SubSeq(s1, 1, n1) = SubSeq(s2, 1, n2)

\* strcmp(s1, s2) == 0
strcmp(s1, s2) == s1 = s2

\* str + n, for n <= strlen(str)
Skip(str, n) == SubSeq(str, n + 1, Len(str))

\* to_wide in the static buffer: the wide characters of an ASCII string,
\* one for each character.  wbuf tells whether get_wbuf finds the memory.
to_wide(s, str, wbuf) ==
  IF ~wbuf THEN y_error(s, "insufficient memory")
  ELSE [s EXCEPT !.ret = [j \in 1 .. Len(str) |-> SubSeq(str, j, j)]]

\* yarg_nil(1) and get_string(0): the arguments as the built-in reads them.
yarg_nil(s, nil) == Log(s, Call("yarg_nil", NULL, IF nil THEN 1 ELSE 0, 0))

get_string(s, string) ==
  Log(s, [Call("get_string", NULL, Len(string), 0)
            EXCEPT !.text = IF string = << >> THEN "" ELSE string[1]])

\* AT_Command with a name given by the caller; handle is told by yarg_nil.
AT_Command(s, wide, code) ==
  Log(s, [Returned(Call("AT_Command", NULL, 0, 0), code)
            EXCEPT !.text = wide])

\* Mutant: the names of the acquisition commands are not looked at.
Y_andor_command_Bare(s, nil, string, in, code1, code2, code, wbuf) ==
  LET s1 == get_string(yarg_nil(s, nil), string)
      Pass(t) ==
        LET Send(u) == throw(AT_Command(u, u.ret, code), "AT_Command", code)
        IN  Then(to_wide(t, string[1], wbuf), Send)
  IN  IF string = << >>
      THEN y_error(s1, "invalid NULL string for the command")
      ELSE Pass(s1)

\* nil: the first argument is nil (the system handle); string: the second.
Y_andor_command(s, nil, string, in, code1, code2, code, wbuf) ==
  LET s1 == get_string(yarg_nil(s, nil), string)
      command == string[1]
      start == /\ ~nil /\ strncmp("Acquisition", command, 11)
               /\ \/ strcmp("Start", Skip(command, 11))
                  \/ strcmp(" Start", Skip(command, 11))
      stop == /\ ~nil /\ strncmp("Acquisition", command, 11)
              /\ ~start
              /\ \/ strcmp("Stop", Skip(command, 11))
                 \/ strcmp(" Stop", Skip(command, 11))
      Pass(t) ==
        LET Send(u) == throw(AT_Command(u, u.ret, code), "AT_Command", code)
        IN  Then(to_wide(t, command, wbuf), Send)
  IN  IF string = << >>
      THEN y_error(s1, "invalid NULL string for the command")
      ELSE IF start THEN start_acquisition(s1, in)
      ELSE IF stop THEN stop_acquisition(s1, FALSE, code1, code2)
      ELSE Pass(s1)

\* Mutant: the pool is freed and the handle closed without stopping first.
free_camera_NoStop(s, code1, code2, code3) ==
  IF s.cam.initialized
  THEN LET s1 == [s EXCEPT !.cam.initialized = FALSE]
           s3 == IF s1.cam.buffer # NULL THEN p_free(s1, s1.cam.buffer)
                 ELSE s1
       IN  AT_Call(s3, "AT_Close", code3)
  ELSE s

free_camera(s, code1, code2, code3) ==
  IF s.cam.initialized
  THEN LET s1 == [s EXCEPT !.cam.initialized = FALSE]
           s2 == IF s1.cam.acquiring
                 THEN stop_acquisition(s1, TRUE, code1, code2)
                 ELSE s1
           s3 == IF s2.cam.buffer # NULL THEN p_free(s2, s2.cam.buffer)
                 ELSE s2
       IN  AT_Call(s3, "AT_Close", code3)
  ELSE s

\* The object ypush_obj makes: every member is zero.
NewCamera ==
  [initialized |-> FALSE, acquiring |-> FALSE, buffer |-> NULL,
   buffer_size |-> 0, queue_length |-> 0, frame_size |-> 0,
   frame_width |-> 0, frame_height |-> 0, row_stride |-> 0,
   extract |-> "NULL"]

\* A new handle has nothing queued.
Y_andor_open(s, code) ==
  LET s1 == [AT_Call(s, "AT_Open", code) EXCEPT !.cam = NewCamera]
      s2 == throw(IF code = AT_SUCCESS THEN [s1 EXCEPT !.hwq = << >>] ELSE s1,
                  "AT_Open", code)
      Done(t) == [t EXCEPT !.cam.initialized = TRUE,
                           !.cam.extract = extract_Raw]
  IN  Then(s2, Done)

(***************************************************************************)
(* The state machine.                                                      *)
(***************************************************************************)
Init ==
  /\ dev \in Devices
  /\ cam = [NewCamera EXCEPT !.initialized = TRUE, !.extract = extract_Raw]
  /\ hwq = << >>
  /\ heap = { }
  /\ warn = RawFallbackDecoders
  /\ op = "Y_andor_open"
  /\ calls = << Call("AT_Open", NULL, 0, 0) >>
  /\ warnings = << >>
  /\ err = NoError
  /\ result = NoResult
  /\ frame = NoFrame

StartInput(enc, geom, failAt, qfail, code, flush1, flush2, mem) ==
  [enc |-> enc, geom |-> geom, failAt |-> failAt, qfail |-> qfail,
   code |-> code, flush1 |-> flush1, flush2 |-> flush2, mem |-> mem]

\* The inputs of a start which ends before it reads any.
NoStartInput ==
  StartInput("Mono16", Geom(1, 1, 1, 1, TRUE), 0, 0, AT_SUCCESS, AT_SUCCESS,
             AT_SUCCESS, NULL)

\* The inputs of a start on device d, each drawn only where the start reads
\* it: nothing is read after the failing site.
StartInputs(d) ==
  { StartInput(enc, geom, 0, 0, AT_SUCCESS, flush1, AT_SUCCESS, mem) :
      enc \in d.encs, geom \in d.geoms, flush1 \in d.codes, mem \in d.mems }
  \cup
  { StartInput("Mono16", Geom(1, 1, 1, 1, TRUE), failAt, 0, "AT_ERR_NODATA",
               AT_SUCCESS, AT_SUCCESS, NULL) :
      failAt \in d.sites \cap { SiteEnumIndex, SiteEnumString } }
  \cup
  { StartInput(enc, geom, failAt, 0, "AT_ERR_NODATA", flush1, AT_SUCCESS,
               NULL) :
      enc \in d.encs, geom \in d.geoms, flush1 \in d.codes,
      failAt \in d.sites \cap (SiteFrameSize .. SiteRowStride) }
  \cup
  { StartInput(enc, geom, SiteQueue, qfail, "AT_ERR_NODATA", flush1, flush2,
               mem) :
      enc \in d.encs, geom \in d.geoms, flush1 \in d.codes,
      flush2 \in d.codes, mem \in d.mems,
      qfail \in (IF SiteQueue \in d.sites THEN 0 .. cam.queue_length - 1
                 ELSE { }) }
  \cup
  { StartInput(enc, geom, failAt, 0, "AT_ERR_NODATA", flush1, flush2, mem) :
      enc \in d.encs, geom \in d.geoms, flush1 \in d.codes,
      flush2 \in d.codes, mem \in d.mems,
      failAt \in d.sites \cap { SiteCycleMode, SiteStart } }

\* Y_andor_start_acquisition.  When the flush before the queuing fails, the
\* buffers left queued stay in front of the new ones: the guard lets it fail
\* only while the hardware queue stays within MaxHwQueue.
Start ==
  /\ cam.initialized
  /\ \E in \in (IF cam.acquiring \/ cam.queue_length <= 0
                THEN { NoStartInput } ELSE StartInputs(dev)) :
       /\ in.flush1 # AT_SUCCESS
            => Len(hwq) + cam.queue_length <= MaxHwQueue
       /\ Leave("Y_andor_start_acquisition", start_acquisition(Enter, in))

\* Y_andor_stop_acquisition
Stop ==
  /\ cam.initialized
  /\ \E code1 \in dev.codes, code2 \in dev.codes :
       Leave("Y_andor_stop_acquisition",
             stop_acquisition(Enter, FALSE, code1, code2))

\* The lengths the caller asks for: on a narrow host, every long from 0 on.
QueueLengths(d) ==
  IF d.bits = WordBits THEN 0 .. LongMax(d) ELSE 0 .. MaxQueueLength

SetQueueLength ==
  /\ cam.initialized
  /\ \E n \in QueueLengths(dev) :
       Leave("Y_andor_set_queue_length", Y_andor_set_queue_length(Enter, n))

\* The commands a caller gives: the acquisition commands in their two
\* spellings, a name which only begins as they do, one shorter than the
\* prefix, and the name of another command of the SDK.
Commands ==
  { "AcquisitionStart", "Acquisition Start", "AcquisitionStop",
    "Acquisition Stop", "AcquisitionStarted", "Start", "SoftwareTrigger" }

\* The strings the caller of device d gives as a command, NULL being one.
CommandStrings(d) ==
  IF d.name = "commands"
  THEN { << >> } \cup { << c >> : c \in Commands }
  ELSE { }

\* Does Y_andor_command run the start for this command?
RunsStart(nil, string) ==
  ~nil /\ string \in { << "AcquisitionStart" >>, << "Acquisition Start" >> }

RunsStop(nil, string) ==
  ~nil /\ string \in { << "AcquisitionStop" >>, << "Acquisition Stop" >> }

\* Y_andor_command on the camera or, its first argument being nil, on the
\* system handle.  Each input is drawn only where the built-in reads it.
Command ==
  /\ cam.initialized
  /\ \E nil \in BOOLEAN, string \in CommandStrings(dev) :
       \E in \in (IF RunsStart(nil, string) /\ ~cam.acquiring
                     /\ cam.queue_length > 0
                  THEN StartInputs(dev) ELSE { NoStartInput }),
          code1 \in (IF RunsStop(nil, string) /\ cam.acquiring
                     THEN dev.codes ELSE { AT_SUCCESS }),
          code2 \in (IF RunsStop(nil, string) /\ cam.acquiring
                     THEN dev.codes ELSE { AT_SUCCESS }),
          code \in (IF RunsStart(nil, string) \/ RunsStop(nil, string)
                       \/ string = << >>
                    THEN { AT_SUCCESS } ELSE dev.codes),
          wbuf \in (IF RunsStart(nil, string) \/ RunsStop(nil, string)
                       \/ string = << >>
                    THEN { TRUE } ELSE BOOLEAN) :
         /\ in.flush1 # AT_SUCCESS
              => Len(hwq) + cam.queue_length <= MaxHwQueue
         /\ Leave("Y_andor_command",
                  Y_andor_command(Enter, nil, string, in, code1, code2,
                                  code, wbuf))

WaitInput(timeout, code, ptr, size, rem, push, qcode) ==
  [timeout |-> timeout, code |-> code, ptr |-> ptr, size |-> size,
   rem |-> rem, push |-> push, qcode |-> qcode]

Timeouts == { -1, 5 }

\* What a remainder by a zero frame stride can do.
Remainders == { "trap", "zero", "nonzero" }

\* What AT_WaitBuffer can report when it hands the oldest buffer over: this
\* buffer and its size or, from a device which strays, an address below the
\* first frame, one inside the first frame, the end of the pool, or a size
\* which is not the size of the frames.
Reports ==
  { Head(hwq) }
  \cup
  (IF dev.stray
   THEN LET first == ROUND_UP(cam.buffer, FRAME_ALIGN)
        IN  { << ptr, size >> :
                ptr \in { Head(hwq)[1], first - FRAME_ALIGN, first + 1,
                          cam.buffer + cam.buffer_size },
                size \in { cam.frame_size, cam.frame_size + 1 } }
   ELSE { })

\* Y_andor_wait_image, the hardware having completed its oldest buffer.
WaitFrame ==
  /\ cam.initialized
  /\ hwq # << >>
  /\ \E timeout \in Timeouts, push \in dev.push, qcode \in dev.codes,
        report \in Reports,
        rem \in (IF ROUND_UP(cam.frame_size, FRAME_ALIGN) = 0
                 THEN Remainders ELSE { "zero" }) :
       Leave("Y_andor_wait_image",
             Y_andor_wait_image(Enter,
               WaitInput(timeout, AT_SUCCESS, report[1], report[2],
                         rem, push, qcode)))

\* Y_andor_wait_image, no buffer being completed in time (only a finite
\* timeout can expire) or the wait failing.
WaitFail ==
  /\ cam.initialized
  /\ \E timeout \in Timeouts, code \in ErrCodes \cup { "AT_ERR_TIMEDOUT" } :
       /\ code = "AT_ERR_TIMEDOUT" => timeout >= 0
       /\ Leave("Y_andor_wait_image",
                Y_andor_wait_image(Enter,
                  WaitInput(timeout, code, NULL, 0, "zero", TRUE,
                            AT_SUCCESS)))

\* The interpreter drops its last reference to the camera.
Free ==
  /\ cam.initialized
  /\ \E code1 \in dev.codes, code2 \in dev.codes, code3 \in dev.codes :
       Leave("free_camera", free_camera(Enter, code1, code2, code3))

\* Y_andor_open: the model follows one camera object at a time.
Open ==
  /\ ~cam.initialized
  /\ \E code \in dev.codes :
       Leave("Y_andor_open", Y_andor_open(Enter, code))

Next ==
  \/ Start
  \/ Stop
  \/ SetQueueLength
  \/ Command
  \/ WaitFrame
  \/ WaitFail
  \/ Free
  \/ Open

Spec == Init /\ [][Next]_vars

(***************************************************************************)
(* The sizes of start_acquisition on a narrow host: every queue length the *)
(* caller can give and the frame sizes of NarrowGeoms, a camera being      *)
(* given its queue length and started.                                     *)
(***************************************************************************)
WordInit ==
  /\ dev \in NarrowHosts
  /\ cam = [NewCamera EXCEPT !.initialized = TRUE, !.extract = extract_Raw]
  /\ hwq = << >>
  /\ heap = { }
  /\ warn = RawFallbackDecoders
  /\ op = "Y_andor_open"
  /\ calls = << Call("AT_Open", NULL, 0, 0) >>
  /\ warnings = << >>
  /\ err = NoError
  /\ result = NoResult
  /\ frame = NoFrame

WordNext ==
  \/ SetQueueLength
  \/ Start

WordSpec == WordInit /\ [][WordNext]_vars

(***************************************************************************)
(* The pixel decoders.                                                     *)
(*                                                                         *)
(* A frame is the sequence of its bytes, src + k being its element k + 1,  *)
(* and the array a decoder makes is the sequence of its bytes (the mono    *)
(* decoders) or of its elements (the packed one), row after row.           *)
(***************************************************************************)
MaxWidth == 5    \* widest image decoded
MaxHeight == 2   \* tallest image decoded

\* An element of the new array which nothing has been written to.
Unwritten == -1

\* a << n, a >> n, a & b and a | b on naturals.
Shl(a, n) == a * 2 ^ n
Shr(a, n) == a \div 2 ^ n

RECURSIVE BitAnd(_, _)
BitAnd(a, b) ==
  IF a = 0 \/ b = 0 THEN 0
  ELSE (IF a % 2 = 1 /\ b % 2 = 1 THEN 1 ELSE 0)
         + 2 * BitAnd(a \div 2, b \div 2)

RECURSIVE BitOr(_, _)
BitOr(a, b) ==
  IF a = 0 THEN b
  ELSE IF b = 0 THEN a
  ELSE (IF a % 2 = 1 \/ b % 2 = 1 THEN 1 ELSE 0)
         + 2 * BitOr(a \div 2, b \div 2)

\* The value an unsigned short keeps.
UShort(v) == v % 65536

\* sizeof(DST_TYPE) and sizeof(SRC_TYPE) of the mono decoders, for the
\* builds whose unsigned short has 2 bytes and whose unsigned int has 4.
MonoDecoders == { "Mono8", "Mono12", "Mono16", "Mono32" }

SizeOfDst(NAME) ==
  CASE NAME = "Mono8" -> 1
    [] NAME \in { "Mono12", "Mono16" } -> 2
    [] NAME = "Mono32" -> 4

SizeOfSrc(NAME) ==
  CASE NAME = "Mono8" -> 1
    [] NAME \in { "Mono12", "Mono16" } -> 2
    [] NAME = "Mono32" -> 4

\* What ypush_c, ypush_s and ypush_i make: an array of n unwritten items.
ypush(n) == [i \in 1 .. n |-> Unwritten]

\* memcpy(dst + d, src + s, n)
memcpy(dst, d, src, s, n) ==
  [i \in 1 .. Len(dst) |->
     IF d < i /\ i <= d + n THEN src[s + (i - d)] ELSE dst[i]]

\* Mutant: the rows are read one after the other, whatever the row stride.
RECURSIVE copy_rows_Tight(_, _, _, _, _)
copy_rows_Tight(c, dst, src, row_size, y) ==
  IF ~(y < c.frame_height) THEN dst
  ELSE copy_rows_Tight(c, memcpy(dst, y * row_size, src, y * row_size,
                                 row_size),
                       src, row_size, y + 1)

\* "Copy row by row", from row y on.
RECURSIVE copy_rows(_, _, _, _, _)
copy_rows(c, dst, src, row_size, y) ==
  IF ~(y < c.frame_height) THEN dst
  ELSE copy_rows(c, memcpy(dst, y * row_size, src, y * c.row_stride,
                           row_size),
                 src, row_size, y + 1)

\* "A conversion is needed, copy pixel by pixel": byte b of element x of row
\* y is that of the source element, or zero beyond it (the bytes of an
\* element are taken lowest first).
convert_rows(c, dst, src, dsize, ssize) ==
  [i \in 1 .. Len(dst) |->
     LET y == (i - 1) \div (dsize * c.frame_width)
         x == ((i - 1) % (dsize * c.frame_width)) \div dsize
         b == (i - 1) % dsize
     IN  IF b < ssize THEN src[y * c.row_stride + x * ssize + b + 1] ELSE 0]

\* What a decoder pushes when it follows the image: the dimension list and
\* the items of the array.
Array(kind, dims, data) == [kind |-> kind, dims |-> dims, data |-> data]

\* extract_Mono8, extract_Mono12, extract_Mono16 and extract_Mono32
extract_Mono(s, NAME, src) ==
  LET c == s.cam
      dsize == SizeOfDst(NAME)
      ssize == SizeOfSrc(NAME)
      dims == << 2, c.frame_width, c.frame_height >>
      dst == ypush(dsize * c.frame_width * c.frame_height)
      row_size == dsize * c.frame_width
  IN  IF dsize < ssize
      THEN y_error(s, "sizeof(DST_TYPE) < sizeof(SRC_TYPE)")
      ELSE IF ssize = dsize
      THEN IF c.row_stride = row_size
           THEN [s EXCEPT !.result =
                   Array(NAME, dims,
                         memcpy(dst, 0, src, 0, c.frame_height * row_size))]
           ELSE [s EXCEPT !.result =
                   Array(NAME, dims, copy_rows(c, dst, src, row_size, 0))]
      ELSE [s EXCEPT !.result =
              Array(NAME, dims, convert_rows(c, dst, src, dsize, ssize))]

EXTRACTLOWPACKED(src, ptr) ==
  BitOr(Shl(src[ptr + 1], 4), BitAnd(src[ptr + 2], 15))

\* Mutant: the high sample takes the low half of the middle byte.
EXTRACTHIGHPACKED_LowHalf(src, ptr) ==
  BitOr(Shl(src[ptr + 3], 4), BitAnd(src[ptr + 2], 15))

EXTRACTHIGHPACKED(src, ptr) ==
  BitOr(Shl(src[ptr + 3], 4), Shr(src[ptr + 2], 4))

\* The loop over the pairs of a row: the array, src_ptr and dst_ptr it ends
\* with.
RECURSIVE packed_pairs(_, _, _, _, _)
packed_pairs(dst, src, src_ptr, dst_ptr, dst_end) ==
  IF ~(dst_ptr < dst_end) THEN << dst, src_ptr, dst_ptr >>
  ELSE packed_pairs(
         [dst EXCEPT ![dst_ptr + 1] = UShort(EXTRACTLOWPACKED(src, src_ptr)),
                     ![dst_ptr + 2] = UShort(EXTRACTHIGHPACKED(src, src_ptr))],
         src, src_ptr + 3, dst_ptr + 2, dst_end)

\* The loop over the rows, from row y on.
RECURSIVE packed_rows(_, _, _, _)
packed_rows(c, dst, src, y) ==
  IF ~(y < c.frame_height) THEN dst
  ELSE LET odd == c.frame_width % 2 # 0
           even_width == c.frame_width - (c.frame_width % 2)
           r == packed_pairs(dst, src, y * c.row_stride, y * c.frame_width,
                             y * c.frame_width + even_width)
           d == IF odd
                THEN [r[1] EXCEPT ![r[3] + 1] =
                                     UShort(EXTRACTLOWPACKED(src, r[2]))]
                ELSE r[1]
       IN  packed_rows(c, d, src, y + 1)

extract_Mono12Packed(s, src) ==
  LET c == s.cam
      dims == << 2, c.frame_width, c.frame_height >>
      dst == ypush(c.frame_width * c.frame_height)
  IN  [s EXCEPT !.result =
         Array("Mono12Packed", dims, packed_rows(c, dst, src, 0))]

(***************************************************************************)
(* The images the decoders are given.                                      *)
(***************************************************************************)
\* The 12-bit samples of an image and the bytes of a frame, all different
\* from their neighbours, made from a seed.
SampleSeeds == { 0, 15, 240, 2748, 3840, 4095 }
ByteSeeds == { 0, 250 }

Sample(seed, i) == (seed + 1365 * i) % 4096
ByteOf(seed, i) == (seed + 37 * i) % 256

\* The three bytes the hardware packs a pair of samples in, and the two it
\* packs the last sample of an odd row in, fill being what it leaves in the
\* half byte that no sample has.
PackPair(lo, hi) ==
  << Shr(lo, 4), BitOr(BitAnd(lo, 15), Shl(BitAnd(hi, 15), 4)), Shr(hi, 4) >>

PackLast(lo, fill) == SubSeq(PackPair(lo, fill), 1, 2)

RECURSIVE PackRow(_, _)
PackRow(row, fill) ==
  IF row = << >> THEN << >>
  ELSE IF Len(row) = 1 THEN PackLast(row[1], fill)
  ELSE PackPair(row[1], row[2]) \o PackRow(SubSeq(row, 3, Len(row)), fill)

\* The bytes of a packed row of width samples.
PackedRowSize(width) == 3 * (width \div 2) + 2 * (width % 2)

\* The rows of an image, each followed by pad bytes which are no pixel.
RECURSIVE PackImage(_, _, _)
PackImage(rows, pad, fill) ==
  IF rows = << >> THEN << >>
  ELSE PackRow(Head(rows), fill) \o [i \in 1 .. pad |-> fill % 256]
         \o PackImage(Tail(rows), pad, fill)

\* A camera which is acquiring images of this geometry in a pool of one
\* slot, the hardware having completed the slot.
AcquiringCamera(NAME, width, height, stride) ==
  [NewCamera EXCEPT
     !.initialized = TRUE, !.acquiring = TRUE, !.extract = NAME,
     !.queue_length = 1, !.frame_size = height * stride,
     !.frame_width = width, !.frame_height = height, !.row_stride = stride,
     !.buffer = 64,
     !.buffer_size = (FRAME_ALIGN - 1) + ROUND_UP(height * stride, FRAME_ALIGN)]

DecodeInit ==
  /\ dev \in { d \in Devices : d.name = "encodings" }
  /\ \E width \in 1 .. MaxWidth, height \in 1 .. MaxHeight, pad \in 0 .. 1 :
       \/ \E NAME \in MonoDecoders, seed \in ByteSeeds :
            LET stride == SizeOfSrc(NAME) * width + pad
            IN  /\ cam = AcquiringCamera(NAME, width, height, stride)
                /\ frame = Image(<< >>, [i \in 1 .. height * stride |->
                                           ByteOf(seed, i)])
       \/ \E seed \in SampleSeeds :
            LET stride == PackedRowSize(width) + pad
                pixels == [y \in 1 .. height |->
                             [x \in 1 .. width |->
                                Sample(seed, (y - 1) * width + x)]]
            IN  /\ cam = AcquiringCamera("Mono12Packed", width, height,
                                         stride)
                /\ frame = Image(pixels, PackImage(pixels, pad, seed))
  /\ hwq = << >>
  /\ heap = { 64 }
  /\ warn = RawFallbackDecoders
  /\ op = "AT_WaitBuffer"
  /\ calls = << Call("AT_WaitBuffer", 64, cam.frame_size, AT_INFINITE) >>
  /\ warnings = << >>
  /\ err = NoError
  /\ result = NoResult

\* The decoder of the camera is given the frame.
Decode(name, s) ==
  /\ op' = name
  /\ result' = s.result
  /\ err' = s.err
  /\ UNCHANGED << dev, cam, hwq, heap, warn, calls, warnings, frame >>

ExtractMono ==
  /\ op = "AT_WaitBuffer"
  /\ cam.extract \in MonoDecoders
  /\ Decode("extract_Mono", extract_Mono(Enter, cam.extract, frame.bytes))

ExtractMono12Packed ==
  /\ op = "AT_WaitBuffer"
  /\ cam.extract = "Mono12Packed"
  /\ Decode("extract_Mono12Packed",
            extract_Mono12Packed(Enter, frame.bytes))

DecodeNext ==
  \/ ExtractMono
  \/ ExtractMono12Packed

DecodeSpec == DecodeInit /\ [][DecodeNext]_vars

(***************************************************************************)
(* Vocabulary of the properties.                                           *)
(***************************************************************************)
StartOp == "Y_andor_start_acquisition"
StopOp == "Y_andor_stop_acquisition"
WaitOp == "Y_andor_wait_image"
CommandOp == "Y_andor_command"

\* The built-ins which can run start_acquisition.
StartOps == { StartOp, CommandOp }

\* The calls of a log to the SDK and the allocator, the reads of the
\* arguments of the built-in left out.
DeviceCalls(cs) ==
  SelectSeq(cs, LAMBDA c : c.fn \notin { "yarg_nil", "get_string" })

\* The calls of the log cs to the function fn, in order.
CallsTo(cs, fn) == SelectSeq(cs, LAMBDA c : c.fn = fn)

HasCall(cs, fn) == \E i \in 1 .. Len(cs) : cs[i].fn = fn

\* The place in the log cs of its first call to fn, which it has.
FirstCall(cs, fn) ==
  CHOOSE i \in 1 .. Len(cs) :
    cs[i].fn = fn /\ \A j \in 1 .. i - 1 : cs[j].fn # fn

\* The least multiple of m which is at least n.
RoundUpTo(n, m) == CHOOSE r \in n .. n + m - 1 : r % m = 0

\* The total size a pool of queue_length frames of frame_size bytes needs.
RequiredTotal(frame_size, queue_length) ==
  7 + RoundUpTo(frame_size, 8) * queue_length

\* The last operation was a start in which p_malloc returned NULL.
AllocationFailed ==
  /\ op = StartOp
  /\ \E i \in 1 .. Len(calls) : calls[i].fn = "p_malloc" /\ calls[i].ptr = NULL

\* The last operation was a wait to which the hardware reported a buffer.
BufferReported == op = WaitOp /\ HasCall(calls, "AT_WaitBuffer")
                    /\ ~(Len(err) = 3 /\ err[2] = "AT_WaitBuffer")

(***************************************************************************)
(* C1.  While the camera is acquiring (from the end of a successful start  *)
(* to the stop), the recorded size of the pool is                          *)
(* 7 + round_up(frame_size, 8) * queue_length, for every queue_length >= 1 *)
(* and frame_size >= 1, whatever came before.                              *)
(***************************************************************************)
C1_PoolSize ==
  (cam.acquiring /\ cam.queue_length >= 1 /\ cam.frame_size >= 1)
    => cam.buffer_size = RequiredTotal(cam.frame_size, cam.queue_length)

\* Acquiring after a wait, with frames which are not a multiple of 8 bytes,
\* the longest queue and a pool which is held.
C1_Witness ==
  /\ op = WaitOp /\ err = NoError
  /\ cam.acquiring /\ cam.buffer # NULL
  /\ cam.frame_size > 1 /\ cam.frame_size % FRAME_ALIGN # 0
  /\ cam.queue_length = MaxQueueLength

(***************************************************************************)
(* C2.  A start which gets through its queuing loop has queued exactly     *)
(* queue_length buffers, slot k = 0 .. queue_length-1 in this order at     *)
(* round_up(buffer, 8) + k * round_up(frame_size, 8), each with the frozen *)
(* frame size, consecutive addresses being round_up(frame_size, 8) apart;  *)
(* when the start succeeds they are the last buffers of the hardware queue.*)
(***************************************************************************)
C2_Queued ==
  (op = StartOp /\ HasCall(calls, "AT_SetEnumString CycleMode Continuous"))
    => LET q == CallsTo(calls, "AT_QueueBuffer")
           n == cam.queue_length
       IN  /\ Len(q) = n
           /\ \A k \in 0 .. n - 1 :
                /\ q[k + 1].ptr = RoundUpTo(cam.buffer, 8)
                                    + k * RoundUpTo(cam.frame_size, 8)
                /\ q[k + 1].size = cam.frame_size
           /\ \A k \in 1 .. n - 1 :
                q[k + 1].ptr - q[k].ptr = RoundUpTo(cam.frame_size, 8)
           /\ cam.acquiring
                => /\ Len(hwq) >= n
                   /\ \A k \in 1 .. n :
                        hwq[Len(hwq) - n + k] = << q[k].ptr, q[k].size >>

\* A successful start of the longest queue on a pool whose block is not
\* aligned, with frames which are not a multiple of 8 bytes.
C2_Witness ==
  /\ op = StartOp /\ cam.acquiring
  /\ cam.buffer % FRAME_ALIGN # 0
  /\ cam.frame_size % FRAME_ALIGN # 0
  /\ cam.queue_length = MaxQueueLength
  /\ Len(hwq) = MaxQueueLength

(***************************************************************************)
(* C3 (as claimed, for the first step of start).  A start which fails in   *)
(* resolving the pixel encoding ends with the camera idle and the hardware *)
(* buffers flushed: no buffer, queued by this start or left from before    *)
(* it, is queued with the hardware.                                        *)
(***************************************************************************)
EncodingErrors ==
  { << "failure in", "AT_GetEnumIndex \"PixelEncoding\"", r >> :
      r \in { get_reason(c) : c \in ErrCodes } }
  \cup
  { << "failure in", "AT_GetEnumStringByIndex \"PixelEncoding\"", r >> :
      r \in { get_reason(c) : c \in ErrCodes } }

C3_FailedStartIdleFlushed ==
  (op = StartOp /\ err \in EncodingErrors)
    => (~cam.acquiring /\ hwq = << >>)

(***************************************************************************)
(* C4.  A stop of a camera which is acquiring, explicit (final false) or   *)
(* from free_camera (final true), calls the stop command, then the flush,  *)
(* and leaves the camera idle without raising an error, whatever the two   *)
(* calls return.                                                           *)
(***************************************************************************)
C4_StopAlwaysIdle ==
  [][ (cam.acquiring /\ op' \in { StopOp, "free_camera" })
        => /\ Len(calls') >= 2
           /\ calls'[1].fn = "AT_Command AcquisitionStop"
           /\ calls'[2].fn = "AT_Flush"
           /\ op' = StopOp => Len(calls') = 2
           /\ ~cam'.acquiring
           /\ err' = NoError ]_vars

\* An explicit stop both calls of which have failed.
C4_Witness ==
  /\ op = StopOp /\ ~cam.acquiring /\ err = NoError
  /\ Len(calls) = 2
  /\ Len(warnings) = 2
  /\ warnings[2][1] = "Failure of AT_Flush (%s)."
  /\ hwq # << >>

(***************************************************************************)
(* C5 (as claimed).  When the hardware reports a buffer to a wait, the     *)
(* wait queues that buffer again, with the address and the size reported,  *)
(* before it ends, whether or not the decoding raised an error (stated for *)
(* a camera which holds a pool of frames of at least one byte).            *)
(***************************************************************************)
C5_AlwaysRequeued ==
  (BufferReported /\ cam.buffer # NULL /\ cam.frame_size >= 1)
    => LET w == CallsTo(calls, "AT_WaitBuffer")[1]
           q == CallsTo(calls, "AT_QueueBuffer")
       IN  /\ Len(q) = 1
           /\ q[1].ptr = w.ptr
           /\ q[1].size = w.size

(***************************************************************************)
(* C6.  A wait which times out raises the error of AT_WaitBuffer with the  *)
(* reason AT_ERR_TIMEDOUT after that single call: it decodes nothing,      *)
(* queues nothing, and leaves the camera (acquiring, pool, geometry,       *)
(* decoder), the hardware queue and the allocator as they were, so that    *)
(* the buffers awaited are still queued for a later wait.                  *)
(***************************************************************************)
TimeoutError == << "failure in", "AT_WaitBuffer", "AT_ERR_TIMEDOUT" >>

C6_TimeoutKeepsState ==
  [][ (op' = WaitOp /\ err' = TimeoutError)
        => /\ cam.acquiring
           /\ cam' = cam
           /\ hwq' = hwq
           /\ heap' = heap
           /\ warn' = warn
           /\ Len(calls') = 1
           /\ calls'[1].fn = "AT_WaitBuffer"
           /\ result' = NoResult
           /\ warnings' = << >> ]_vars

\* A wait has timed out with every buffer of the longest queue still queued.
C6_Witness ==
  /\ op = WaitOp /\ err = TimeoutError
  /\ cam.acquiring
  /\ Len(hwq) = MaxQueueLength
  /\ cam.queue_length = MaxQueueLength

(***************************************************************************)
(* C7 (as claimed).  Start, stop, start: a start which follows the stop of *)
(* an acquisition and to which the device reports the geometry of that     *)
(* acquisition, the queue length being the same, calls neither p_free nor  *)
(* p_malloc and leaves the address and the size of the pool what they were *)
(* after the first start.                                                  *)
(***************************************************************************)
C7_SameGeometryReusesPool ==
  [][ (/\ op = StopOp /\ Len(calls) = 2
       /\ op' = StartOp /\ cam'.acquiring
       /\ cam'.frame_size = cam.frame_size
       /\ cam'.frame_width = cam.frame_width
       /\ cam'.frame_height = cam.frame_height
       /\ cam'.row_stride = cam.row_stride
       /\ cam'.queue_length = cam.queue_length)
        => /\ ~HasCall(calls', "p_free")
           /\ ~HasCall(calls', "p_malloc")
           /\ cam'.buffer = cam.buffer
           /\ cam'.buffer_size = cam.buffer_size ]_vars

(***************************************************************************)
(* C8 (as claimed).  A successful start to which the device reports a      *)
(* frame size other than that of the previous start frees the pool held    *)
(* and allocates a new one.                                                *)
(***************************************************************************)
C8_DifferentGeometryReallocates ==
  [][ (/\ op' = StartOp
       /\ ~cam.acquiring /\ cam'.acquiring
       /\ cam.buffer # NULL
       /\ cam'.frame_size # cam.frame_size)
        => /\ HasCall(calls', "p_free")
           /\ HasCall(calls', "p_malloc") ]_vars

(***************************************************************************)
(* C8 (amended).  A start which gets to its queuing loop on a camera which *)
(* holds a pool whose recorded size is not the total that the frame size   *)
(* reported and the queue length need frees that pool, then asks p_malloc  *)
(* for exactly this total, which becomes the recorded size.                *)
(***************************************************************************)
C8_DifferentTotalReallocates ==
  [][ (/\ op' = StartOp
       /\ ~cam.acquiring
       /\ HasCall(calls', "AT_QueueBuffer")
       /\ cam.buffer # NULL /\ cam.buffer_size > 0
       /\ cam.buffer_size # RequiredTotal(cam'.frame_size, cam.queue_length))
        => LET f == CallsTo(calls', "p_free")
               m == CallsTo(calls', "p_malloc")
               a == CallsTo(calls', "AT_QueueBuffer")
           IN  /\ Len(f) = 1 /\ f[1].ptr = cam.buffer
               /\ Len(m) = 1 /\ Len(a) >= 1
               /\ m[1].size = RequiredTotal(cam'.frame_size, cam.queue_length)
               /\ FirstCall(calls', "p_free") < FirstCall(calls', "p_malloc")
               /\ FirstCall(calls', "p_malloc")
                    < FirstCall(calls', "AT_QueueBuffer")
               /\ cam'.buffer = m[1].ptr
               /\ cam'.buffer_size = m[1].size
               /\ cam.buffer \notin heap' \/ cam.buffer = cam'.buffer ]_vars

\* A start has succeeded on a pool it allocated after freeing another.
C8_Witness ==
  /\ op = StartOp /\ cam.acquiring
  /\ HasCall(calls, "p_free") /\ HasCall(calls, "p_malloc")
  /\ cam.buffer # NULL /\ cam.buffer \in heap
  /\ cam.buffer_size = RequiredTotal(cam.frame_size, cam.queue_length)

(***************************************************************************)
(* C9 (as claimed).  A start in which p_malloc returns no pool raises an   *)
(* error, leaves the camera idle and nothing queued with the hardware, and *)
(* records no size for a pool which is not held (stated for frames of at   *)
(* least one byte).                                                        *)
(***************************************************************************)
C9_AllocationFailureAborts ==
  (AllocationFailed /\ cam.frame_size >= 1)
    => /\ err # NoError
       /\ ~cam.acquiring
       /\ hwq = << >>
       /\ ~(cam.buffer = NULL /\ cam.buffer_size > 0)

(***************************************************************************)
(* C10.  A start on a camera which is acquiring changes no member of the   *)
(* camera, nor the hardware queue, nor the allocator, calls nothing, and   *)
(* prints the warning "Camera already acquiring." without raising an       *)
(* error.                                                                  *)
(***************************************************************************)
C10_StartWhileAcquiring ==
  [][ (cam.acquiring /\ op' = StartOp)
        => /\ cam' = cam
           /\ hwq' = hwq
           /\ heap' = heap
           /\ warn' = warn
           /\ calls' = << >>
           /\ warnings' = << << "Camera already acquiring.", "" >> >>
           /\ err' = NoError ]_vars

\* A start has only warned, the camera acquiring with its queue queued.
C10_Witness ==
  /\ op = StartOp /\ cam.acquiring
  /\ calls = << >>
  /\ warnings = << << "Camera already acquiring.", "" >> >>
  /\ Len(hwq) = MaxQueueLength

(***************************************************************************)
(* C11.  A stop of a camera which is not acquiring changes no member of    *)
(* the camera, nor the hardware queue, nor the allocator, calls neither    *)
(* the stop command nor the flush, and prints the warning "Camera not      *)
(* acquiring." without raising an error.                                   *)
(***************************************************************************)
C11_StopWhileIdle ==
  [][ (~cam.acquiring /\ op' = StopOp)
        => /\ cam' = cam
           /\ hwq' = hwq
           /\ heap' = heap
           /\ warn' = warn
           /\ calls' = << >>
           /\ warnings' = << << "Camera not acquiring.", "" >> >>
           /\ err' = NoError ]_vars

\* A stop has only warned, the camera idle with a pool and buffers which an
\* earlier flush has left queued.
C11_Witness ==
  /\ op = StopOp /\ ~cam.acquiring
  /\ calls = << >>
  /\ warnings = << << "Camera not acquiring.", "" >> >>
  /\ cam.buffer # NULL
  /\ hwq # << >>

(***************************************************************************)
(* C12.  A wait on a camera which is not acquiring raises the error        *)
(* "camera is not acquiring": it calls nothing (no AT_WaitBuffer, no       *)
(* AT_QueueBuffer), decodes nothing, and leaves the camera, the hardware   *)
(* queue and the allocator as they were.                                   *)
(***************************************************************************)
NotAcquiringError == << "camera is not acquiring" >>

C12_WaitWhileIdle ==
  [][ (~cam.acquiring /\ op' = WaitOp)
        => /\ err' = NotAcquiringError
           /\ calls' = << >>
           /\ result' = NoResult
           /\ warnings' = << >>
           /\ cam' = cam
           /\ hwq' = hwq
           /\ heap' = heap
           /\ warn' = warn ]_vars

\* A wait has been refused, the camera idle with buffers still queued.
C12_Witness ==
  /\ op = WaitOp /\ err = NotAcquiringError
  /\ ~cam.acquiring
  /\ cam.buffer # NULL
  /\ hwq # << >>

(***************************************************************************)
(* C13.  Y_andor_set_queue_length with argument n raises an error when     *)
(* n < 1 or the camera is acquiring, and then changes nothing; otherwise   *)
(* it raises none, sets queue_length to n and changes nothing else.  So    *)
(* the queue length does not change while the camera stays acquiring.      *)
(***************************************************************************)
SetOp == "Y_andor_set_queue_length"

C13_SetQueueLength ==
  [][ /\ op' = SetOp
        => LET n == calls'[1].size
           IN  /\ hwq' = hwq /\ heap' = heap /\ warn' = warn
               /\ IF n < 1 \/ cam.acquiring
                  THEN err' # NoError /\ cam' = cam
                  ELSE /\ err' = NoError
                       /\ cam' = [cam EXCEPT !.queue_length = n]
      /\ (cam.acquiring /\ cam'.acquiring)
           => cam'.queue_length = cam.queue_length ]_vars

\* A valid new length has been refused because the camera is acquiring.
C13_Witness ==
  /\ op = SetOp /\ cam.acquiring
  /\ err = << "acquisition is acquiring" >>
  /\ calls[1].size >= 1
  /\ calls[1].size # cam.queue_length

(***************************************************************************)
(* C14.  A start on an idle camera whose queue length is below 1 (as it    *)
(* is from Y_andor_open until Y_andor_set_queue_length succeeds) raises    *)
(* the error "set queue length first": the camera stays idle, nothing is   *)
(* called (no SDK call, no allocation) and no member of the camera, the    *)
(* geometry included, changes.                                             *)
(***************************************************************************)
NoLengthError == << "set queue length first" >>

C14_StartWithoutQueueLength ==
  [][ (~cam.acquiring /\ cam.queue_length < 1 /\ op' = StartOp)
        => /\ err' = NoLengthError
           /\ calls' = << >>
           /\ warnings' = << >>
           /\ cam' = cam
           /\ ~cam'.acquiring
           /\ hwq' = hwq
           /\ heap' = heap ]_vars

\* A start has been refused on a camera opened anew, its length never set.
C14_Witness ==
  /\ op = StartOp /\ err = NoLengthError
  /\ ~cam.acquiring /\ cam.queue_length = 0
  /\ cam.initialized

(***************************************************************************)
(* C15 (as claimed).  When the stop command or the flush of a stop fails,  *)
(* explicit (final false) or from free_camera (final true), no error is    *)
(* raised and a warning is printed (stated for a camera which holds its    *)
(* pool).                                                                  *)
(***************************************************************************)
FreeOp == "free_camera"

PushError == << "ypush: memory manager failed" >>

\* The frame AT_WaitBuffer reported in the last wait is not one of the
\* slots of the pool with the frozen size.
InconsistentReport ==
  /\ BufferReported
  /\ LET w == CallsTo(calls, "AT_WaitBuffer")[1]
         first == RoundUpTo(cam.buffer, 8)
         stride == RoundUpTo(cam.frame_size, 8)
     IN  \/ w.size # cam.frame_size
         \/ w.ptr < first
         \/ w.ptr >= cam.buffer + cam.buffer_size
         \/ stride > 0 /\ (w.ptr - first) % stride # 0

C16_InconsistentFrameOnlyWarns ==
  (/\ InconsistentReport
   /\ err # PushError
   /\ \A i \in 1 .. Len(calls) : calls[i].code = AT_SUCCESS)
    => LET w == CallsTo(calls, "AT_WaitBuffer")[1]
           q == CallsTo(calls, "AT_QueueBuffer")
       IN  /\ err = NoError
           /\ result # NoResult
           /\ result.src = w.ptr
           /\ Len(q) = 1 /\ q[1].ptr = w.ptr /\ q[1].size = w.size
           /\ cam.acquiring

(***************************************************************************)
(* C17.  free_camera on an initialized camera, in whatever state, calls    *)
(* in this order: the stop command and the flush if the camera is          *)
(* acquiring, p_free on the pool if one is held, AT_Close; and nothing     *)
(* else.  Whatever the stop command, the flush and AT_Close return, no     *)
(* error is raised, no block is left allocated, and the camera is neither  *)
(* acquiring nor initialized afterwards.                                   *)
(***************************************************************************)
C17_Teardown ==
  [][ (cam.initialized /\ op' = FreeOp)
        => LET stop == IF cam.acquiring
                       THEN << "AT_Command AcquisitionStop", "AT_Flush" >>
                       ELSE << >>
               free == IF cam.buffer # NULL THEN << "p_free" >> ELSE << >>
               fns == stop \o free \o << "AT_Close" >>
           IN  /\ Len(calls') = Len(fns)
               /\ \A i \in 1 .. Len(fns) : calls'[i].fn = fns[i]
               /\ \A i \in 1 .. Len(fns) :
                    calls'[i].fn = "p_free" => calls'[i].ptr = cam.buffer
               /\ err' = NoError
               /\ warnings' = << >>
               /\ heap' = { }
               /\ ~cam'.acquiring
               /\ ~cam'.initialized ]_vars

\* free_camera has stopped an acquisition, freed the pool and closed the
\* handle, the stop command, the flush and AT_Close all failing.
C17_Witness ==
  /\ op = FreeOp /\ err = NoError
  /\ Len(calls) = 4
  /\ \A i \in { 1, 2, 4 } : calls[i].code # AT_SUCCESS
  /\ calls[3].fn = "p_free" /\ calls[3].ptr # NULL
  /\ calls[4].fn = "AT_Close"
  /\ hwq # << >>
  /\ heap = { }
  /\ ~cam.acquiring

(***************************************************************************)
(* C18.  The geometry (frame_width, frame_height, row_stride, frame_size)  *)
(* and the decoder are written by start only: a wait (whether it returns a *)
(* frame, times out or fails), a stop, a start which only warns that the   *)
(* camera is acquiring and Y_andor_set_queue_length leave them as they     *)
(* were.  Every start which passes its checks asks the device again: it    *)
(* begins by reading the pixel encoding, and when it succeeds it has read  *)
(* each of the encoding, ImageSizeBytes, the width, the height and         *)
(* AOIStride once, and the decoder and the geometry are what the device    *)
(* has answered to these calls, whether or not the pool is reused.         *)
(***************************************************************************)
Geometry(c) ==
  << c.frame_width, c.frame_height, c.row_stride, c.frame_size, c.extract >>

\* What the only call of the log cs to one of the functions fns answered.
Answer(cs, fns) == SelectSeq(cs, LAMBDA c : c.fn \in fns)[1]

AnsweredOnce(cs, fns) == Len(SelectSeq(cs, LAMBDA c : c.fn \in fns)) = 1

C18_GeometryFrozenUntilStart ==
  [][ /\ (\/ op' \in { WaitOp, StopOp, SetOp }
          \/ op' = StartOp /\ cam.acquiring)
        => Geometry(cam') = Geometry(cam)
      /\ (op' = StartOp /\ ~cam.acquiring /\ cam.queue_length >= 1)
           => /\ calls'[1].fn = "AT_GetEnumIndex PixelEncoding"
              /\ cam'.acquiring
                   => LET enc == { "AT_GetEnumStringByIndex PixelEncoding" }
                          size == { "AT_GetInt ImageSizeBytes" }
                          width == { "AT_GetInt AOI Width",
                                     "AT_GetInt Sensor Width" }
                          height == { "AT_GetInt AOI Height",
                                      "AT_GetInt Sensor Height" }
                          stride == { "AT_GetInt AOIStride" }
                          names == { pixel_encoding_table[i] :
                                       i \in 1 .. number_of_pixel_encodings }
                      IN  /\ \A fns \in { enc, size, width, height, stride } :
                                AnsweredOnce(calls', fns)
                          /\ cam'.extract =
                               (IF Answer(calls', enc).text \in names
                                THEN Answer(calls', enc).text ELSE "Raw")
                          /\ cam'.frame_size = Answer(calls', size).size
                          /\ cam'.frame_width = Answer(calls', width).size
                          /\ cam'.frame_height = Answer(calls', height).size
                          /\ cam'.row_stride = Answer(calls', stride).size
    ]_vars

\* A start has succeeded on the pool of an earlier start, which it has not
\* allocated, after reading the geometry of the device which has no AOI.
C18_Witness ==
  /\ op = StartOp /\ cam.acquiring
  /\ cam.buffer # NULL /\ ~HasCall(calls, "p_malloc")
  /\ HasCall(calls, "AT_GetInt Sensor Width")
  /\ cam.frame_size = MaxFrameSize
  /\ cam.queue_length = MaxQueueLength

(***************************************************************************)
(* C19 (as claimed).  The warning for an encoding which is not in the      *)
(* table is printed once only: a start which follows the stop of an        *)
(* acquisition for which the raw decoder had been selected (the devices of *)
(* the model never report "Raw", so that this acquisition had found no row *)
(* for its encoding and warned) and which finds no row either selects the  *)
(* raw decoder and does not print the warning again.                       *)
(***************************************************************************)
UnknownEncoding == << "Unknown pixel encoding.", "" >>

EncodingNames ==
  { pixel_encoding_table[i] : i \in 1 .. number_of_pixel_encodings }

Count(ws, w) == Len(SelectSeq(ws, LAMBDA x : x = w))

\* The last start has been told an encoding which is in no row of the table.
UnmatchedAnswer(cs) ==
  /\ HasCall(cs, "AT_GetEnumStringByIndex PixelEncoding")
  /\ LET a == CallsTo(cs, "AT_GetEnumStringByIndex PixelEncoding")[1]
     IN  a.code = AT_SUCCESS /\ a.text \notin EncodingNames

FallbackWarning(FORMAT) ==
  << "%s pixels will be extracted as raw data.", FORMAT >>

\* The last operation was a wait which has called the decoder.
DecoderCalled ==
  BufferReported /\ (err = NoError \/ err = PushError
                       \/ (Len(err) = 3 /\ err[2] = "AT_QueueBuffer"))

C20_FallbackWarnsOncePerFormat ==
  [][ /\ warn' \subseteq warn
      /\ IF DecoderCalled' /\ cam.extract \in RawFallbackDecoders
         THEN LET FORMAT == cam.extract
                  w == CallsTo(calls', "AT_WaitBuffer")[1]
              IN  /\ warn' = warn \ { FORMAT }
                  /\ Count(warnings', FallbackWarning(FORMAT))
                       = (IF FORMAT \in warn THEN 1 ELSE 0)
                  /\ \A G \in RawFallbackDecoders \ { FORMAT } :
                       Count(warnings', FallbackWarning(G)) = 0
                  /\ err' = NoError
                       => result' = Decoded("Raw", w.ptr, cam.frame_size)
         ELSE /\ warn' = warn
              /\ \A G \in RawFallbackDecoders :
                   Count(warnings', FallbackWarning(G)) = 0 ]_vars

\* A frame of a second format has been returned raw without a warning, the
\* warnings of both formats having been printed before.
C20_Witness ==
  /\ op = WaitOp /\ err = NoError
  /\ cam.extract = "Mono12Coded"
  /\ result # NoResult /\ result.kind = "Raw"
  /\ warnings = << >>
  /\ warn = RawFallbackDecoders \ { "RGB8Packed", "Mono12Coded" }

(***************************************************************************)
(* C21.  An image of 12-bit samples, of any width, odd ones included, each *)
(* pair (lo, hi) of a row being packed in the 3 bytes lo >> 4,             *)
(* (lo & 0xF) | ((hi & 0xF) << 4) and hi >> 4, is given back sample for    *)
(* sample by extract_Mono12Packed: the last sample of an odd row is read   *)
(* from its two bytes alone, whatever the other half of the second byte    *)
(* holds, and row y is read from the byte y * row_stride on, whatever      *)
(* bytes follow the rows.                                                  *)
(***************************************************************************)
C21_PackedRoundTrip ==
  op = "extract_Mono12Packed"
    => /\ err = NoError
       /\ result.dims = << 2, cam.frame_width, cam.frame_height >>
       /\ Len(result.data) = cam.frame_width * cam.frame_height
       /\ \A y \in 1 .. cam.frame_height, x \in 1 .. cam.frame_width :
            result.data[(y - 1) * cam.frame_width + x] = frame.pixels[y][x]

\* An image of the greatest odd width and height has been decoded, its rows
\* being followed by a byte which is no pixel and its samples having bits in
\* each of their three half bytes.
C21_Witness ==
  /\ op = "extract_Mono12Packed"
  /\ cam.frame_width = MaxWidth /\ cam.frame_width % 2 = 1
  /\ cam.frame_height = MaxHeight
  /\ cam.row_stride > PackedRowSize(cam.frame_width)
  /\ frame.pixels[1][1] = 1605
  /\ Len(result.data) = MaxWidth * MaxHeight

(***************************************************************************)
(* C22.  The array made by extract_Mono8, extract_Mono12, extract_Mono16   *)
(* or extract_Mono32 holds, when row_stride is width * element size, the   *)
(* first height * row_stride bytes of the frame as they are; when          *)
(* row_stride is greater, byte b of its element (y, x) is the byte of the  *)
(* frame at y * row_stride + x * element size + b, so that no byte between *)
(* the rows is in the array.                                               *)
(***************************************************************************)
C22_MonoCopy ==
  op = "extract_Mono"
    => LET es == SizeOfSrc(cam.extract)
           w == cam.frame_width
           h == cam.frame_height
       IN  /\ err = NoError
           /\ result.dims = << 2, w, h >>
           /\ Len(result.data) = w * h * es
           /\ IF cam.row_stride = w * es
              THEN result.data = SubSeq(frame.bytes, 1, h * cam.row_stride)
              ELSE \A y \in 0 .. h - 1, x \in 0 .. w - 1, b \in 0 .. es - 1 :
                     result.data[(y * w + x) * es + b + 1]
                       = frame.bytes[y * cam.row_stride + x * es + b + 1]

\* A Mono16 image of 4 by 2 whose rows are followed by a byte which is no
\* pixel has been decoded.
C22_Witness ==
  /\ op = "extract_Mono" /\ cam.extract = "Mono16"
  /\ cam.frame_width = 4 /\ cam.frame_height = 2
  /\ cam.row_stride > 2 * cam.frame_width
  /\ Len(result.data) = 16
  /\ result.data[9] = frame.bytes[cam.row_stride + 1]

(***************************************************************************)
(* C23.  When the AT_QueueBuffer which ends a wait fails, after the frame  *)
(* has been decoded, the wait raises "failure in AT_QueueBuffer (reason)"; *)
(* the camera stays acquiring with its members unchanged, nothing is       *)
(* flushed or stopped (the other buffers stay queued), and the array the   *)
(* decoder has pushed is still the result on the stack.                    *)
(***************************************************************************)
RequeueFailed ==
  /\ op = WaitOp
  /\ Len(err) = 3 /\ err[1] = "failure in" /\ err[2] = "AT_QueueBuffer"

RECURSIVE Repeat(_, _)
Repeat(x, n) == IF n <= 0 THEN << >> ELSE << x >> \o Repeat(x, n - 1)

\* The functions called by the log cs, an "AOI" or "Sensor" read being one.
RECURSIVE Steps(_)
Steps(cs) ==
  IF cs = << >> THEN << >>
  ELSE LET fn == Head(cs).fn
           step ==
             CASE fn \in { "AT_GetInt AOI Width", "AT_GetInt Sensor Width" }
                    -> "width"
               [] fn \in { "AT_GetInt AOI Height", "AT_GetInt Sensor Height" }
                    -> "height"
               [] OTHER -> fn
       IN  << step >> \o Steps(Tail(cs))

StartOrder(queue_length, free, malloc) ==
  << "AT_GetEnumIndex PixelEncoding",
     "AT_GetEnumStringByIndex PixelEncoding",
     "AT_Flush",
     "AT_GetInt ImageSizeBytes",
     "AT_IsImplemented AOI Width", "width",
     "AT_IsImplemented AOI Height", "height",
     "AT_GetInt AOIStride" >>
  \o (IF free THEN << "p_free" >> ELSE << >>)
  \o (IF malloc THEN << "p_malloc" >> ELSE << >>)
  \o Repeat("AT_QueueBuffer", queue_length)
  \o << "AT_SetEnumString CycleMode Continuous",
        "AT_Command AcquisitionStart" >>

C24_StartOrder ==
  [][ /\ (~cam.acquiring /\ cam'.acquiring)
           => /\ op' \in StartOps
              /\ Steps(DeviceCalls(calls'))
                   = StartOrder(cam.queue_length, HasCall(calls', "p_free"),
                                HasCall(calls', "p_malloc"))
              /\ calls'[Len(calls')].code = AT_SUCCESS
              /\ err' = NoError
      /\ (op' \in StartOps /\ HasCall(calls', "AT_QueueBuffer"))
           => /\ HasCall(calls', "AT_Flush")
              /\ FirstCall(calls', "AT_Flush")
                   < FirstCall(calls', "AT_QueueBuffer") ]_vars

\* A start has succeeded after replacing its pool, for the longest queue.
C24_Witness ==
  /\ op = StartOp /\ cam.acquiring /\ err = NoError
  /\ HasCall(calls, "p_free") /\ HasCall(calls, "p_malloc")
  /\ Len(CallsTo(calls, "AT_QueueBuffer")) = MaxQueueLength
  /\ calls[Len(calls)].fn = "AT_Command AcquisitionStart"

(***************************************************************************)
(* C25 (as claimed).  A start which replaces its pool, the old one being   *)
(* freed, leaves the camera holding either no pool with a recorded size of *)
(* zero, or a live region with the size recorded for it: never the address *)
(* of a freed region, and never a size which is not zero for a region it   *)
(* does not hold, whether or not the allocation has succeeded.             *)
(***************************************************************************)
C25_PoolNeverDangling ==
  [][ (op' \in StartOps /\ HasCall(calls', "p_free"))
        => IF cam'.buffer = NULL
           THEN cam'.buffer_size = 0
           ELSE /\ cam'.buffer \in heap'
                /\ cam'.buffer_size > 0 ]_vars

(***************************************************************************)
(* C26.  Y_andor_command on a camera with the command "AcquisitionStart"   *)
(* or "AcquisitionStop", written with or without one space between the two *)
(* words, runs start_acquisition or stop_acquisition and passes no command *)
(* of the caller to the SDK.  In every built-in, the command               *)
(* AcquisitionStart is sent to the camera only by a start, after the flush *)
(* and the queuing of its queue_length slots, and nothing follows it but   *)
(* the flush of its failure.  Every other command on a camera, and every   *)
(* command on the system handle, is sent to the SDK as it was given        *)
(* (unless the memory for its wide string cannot be had, which raises an   *)
(* error) and leaves the camera, the hardware queue and the pool as they   *)
(* were.                                                                   *)
(***************************************************************************)
WideAcquisitionStart ==
  << "A", "c", "q", "u", "i", "s", "i", "t", "i", "o", "n",
     "S", "t", "a", "r", "t" >>

StartNames == { "AcquisitionStart", "Acquisition Start" }
StopNames == { "AcquisitionStop", "Acquisition Stop" }

NullCommandError == << "invalid NULL string for the command" >>
NoMemoryError == << "insufficient memory" >>

\* The arguments Y_andor_command has read.
OnSystemHandle(cs) == cs[1].fn = "yarg_nil" /\ cs[1].size = 1
NullCommand(cs) == cs[2].fn = "get_string" /\ cs[2].size = 0
CommandGiven(cs) == cs[2].text

C26_CommandInterception ==
  [][ /\ op' = CommandOp =>
           LET dc == DeviceCalls(calls')
           IN  IF NullCommand(calls')
               THEN /\ err' = NullCommandError /\ dc = << >>
                    /\ cam' = cam /\ hwq' = hwq /\ heap' = heap
               ELSE IF ~OnSystemHandle(calls')
                       /\ CommandGiven(calls') \in StartNames
               THEN /\ ~HasCall(calls', "AT_Command")
                    /\ IF cam.acquiring
                       THEN /\ warnings' = << << "Camera already acquiring.",
                                                "" >> >>
                            /\ dc = << >> /\ cam' = cam
                       ELSE IF cam.queue_length <= 0
                       THEN /\ err' = NoLengthError
                            /\ dc = << >> /\ cam' = cam
                       ELSE /\ dc # << >>
                            /\ dc[1].fn = "AT_GetEnumIndex PixelEncoding"
                            /\ cam'.acquiring
                                 <=> /\ err' = NoError
                                     /\ dc[Len(dc)].fn
                                          = "AT_Command AcquisitionStart"
               ELSE IF ~OnSystemHandle(calls')
                       /\ CommandGiven(calls') \in StopNames
               THEN /\ ~HasCall(calls', "AT_Command")
                    /\ ~cam'.acquiring /\ err' = NoError
                    /\ IF cam.acquiring
                       THEN /\ Steps(dc) = << "AT_Command AcquisitionStop",
                                              "AT_Flush" >>
                       ELSE /\ warnings' = << << "Camera not acquiring.",
                                                "" >> >>
                            /\ dc = << >> /\ cam' = cam
               ELSE /\ cam' = cam /\ hwq' = hwq /\ heap' = heap
                    /\ \/ err' = NoMemoryError /\ dc = << >>
                       \/ /\ Len(dc) = 1 /\ dc[1].fn = "AT_Command"
                          /\ Len(dc[1].text) = Len(CommandGiven(calls'))
                          /\ \A j \in 1 .. Len(dc[1].text) :
                               dc[1].text[j]
                                 = SubSeq(CommandGiven(calls'), j, j)
                          /\ err' = NoError <=> dc[1].code = AT_SUCCESS
      /\ \A i \in 1 .. Len(calls') :
           /\ calls'[i].fn = "AT_Command AcquisitionStart"
                => /\ op' \in StartOps
                   /\ ~cam.acquiring /\ cam.queue_length >= 1
                   /\ LET before == SubSeq(calls', 1, i - 1)
                          q == CallsTo(before, "AT_QueueBuffer")
                      IN  /\ HasCall(before, "AT_Flush")
                          /\ Len(q) = cam.queue_length
                          /\ \A k \in 1 .. Len(q) : q[k].code = AT_SUCCESS
                   /\ IF calls'[i].code = AT_SUCCESS
                      THEN i = Len(calls')
                      ELSE /\ i = Len(calls') - 1
                           /\ calls'[Len(calls')].fn = "AT_Flush"
           /\ (calls'[i].fn = "AT_Command"
               /\ calls'[i].text = WideAcquisitionStart)
                => OnSystemHandle(calls') ]_vars

\* The command "Acquisition Start" has started a camera which holds its pool
\* with the longest queue, no command of the caller being sent to the SDK.
C26_Witness ==
  /\ op = CommandOp /\ ~OnSystemHandle(calls)
  /\ CommandGiven(calls) = "Acquisition Start"
  /\ cam.acquiring /\ err = NoError
  /\ cam.buffer # NULL /\ cam.queue_length = MaxQueueLength
  /\ Len(hwq) = MaxQueueLength
  /\ calls[Len(calls)].fn = "AT_Command AcquisitionStart"
  /\ ~HasCall(calls, "AT_Command")

(***************************************************************************)
(* C27 (as claimed).  While the camera is acquiring, the slots of the pool *)
(* go round between the hardware queue and the wait: a successful start    *)
(* leaves every slot queued, and a wait to which the hardware reports the  *)
(* oldest slot queued, and whose re-queuing does not fail, takes this one  *)
(* slot and queues it again, so that the queue_length slots are queued     *)
(* again, each once, when the wait ends (stated for frames of at least one *)
(* byte in a pool which is held).                                          *)
(***************************************************************************)
SlotAddresses(c) ==
  { RoundUpTo(c.buffer, 8) + k * RoundUpTo(c.frame_size, 8) :
      k \in 0 .. c.queue_length - 1 }

Queued(q) == { q[i] : i \in 1 .. Len(q) }

\* Exactly the slots of the pool are queued, each once, with the frame size.
AllSlotsQueued(c, q) ==
  /\ Len(q) = c.queue_length
  /\ Queued(q) = { << a, c.frame_size >> : a \in SlotAddresses(c) }

C27_SlotOwnership ==
  [][ /\ (op' = StartOp /\ ~cam.acquiring /\ cam'.acquiring
            /\ cam'.frame_size >= 1)
           => { << a, cam'.frame_size >> : a \in SlotAddresses(cam') }
                \subseteq Queued(hwq')
      /\ (/\ cam.acquiring /\ cam.frame_size >= 1 /\ cam.buffer # NULL
          /\ AllSlotsQueued(cam, hwq)
          /\ BufferReported'
          /\ CallsTo(calls', "AT_WaitBuffer")[1].ptr = Head(hwq)[1]
          /\ CallsTo(calls', "AT_WaitBuffer")[1].size = Head(hwq)[2]
          /\ ~RequeueFailed')
           => /\ hwq' = Tail(hwq) \o << Head(hwq) >>
              /\ AllSlotsQueued(cam', hwq') ]_vars

(***************************************************************************)
(* C28.  The slots which a start has queued lie inside the pool and do not *)
(* overlap: for every slot k, buffer <= address(k),                        *)
(* address(k) + frame_size <= buffer + buffer_size,                        *)
(* address(k) + frame_size <= address(k+1), and address(k) is a multiple   *)
(* of 8, whatever the alignment of the pool and the frame size.            *)
(***************************************************************************)
C28_SlotsInsidePool ==
  (op = StartOp /\ HasCall(calls, "AT_SetEnumString CycleMode Continuous"))
    => LET q == CallsTo(calls, "AT_QueueBuffer")
       IN  /\ Len(q) = cam.queue_length
           /\ \A k \in 1 .. Len(q) :
                /\ cam.buffer <= q[k].ptr
                /\ q[k].ptr + cam.frame_size <= cam.buffer + cam.buffer_size
                /\ q[k].ptr % 8 = 0
                /\ k < Len(q) => q[k].ptr + cam.frame_size <= q[k + 1].ptr

\* A start has queued the longest queue of the largest frames in a pool
\* which is not aligned.
C28_Witness ==
  /\ op = StartOp /\ cam.acquiring
  /\ cam.buffer % FRAME_ALIGN # 0
  /\ cam.frame_size = MaxFrameSize
  /\ Len(CallsTo(calls, "AT_QueueBuffer")) = MaxQueueLength
  /\ HasCall(calls, "p_malloc")

(***************************************************************************)
(* C29 (as claimed).  Whenever the camera is acquiring, its frame size is  *)
(* at least 1, so that the frame stride by which check_frame takes a       *)
(* remainder is not zero.                                                  *)
(***************************************************************************)
C29_FrameSizePositive ==
  cam.acquiring => (cam.frame_size >= 1 /\ ROUND_UP(cam.frame_size, 8) # 0)

(***************************************************************************)
(* C30 (as claimed).  Whatever queue length the caller has set and         *)
(* whatever frame size the device reports, a start which succeeds has      *)
(* computed its stride and the size of its pool without leaving the long:  *)
(* the size recorded is 7 + round_up(frame_size, 8) * queue_length, and    *)
(* every slot queued lies inside the pool of that size.                    *)
(***************************************************************************)
C30_NoWrapAround ==
  (op \in StartOps /\ cam.acquiring /\ cam.buffer # NULL)
    => /\ cam.buffer_size
            = 7 + RoundUpTo(cam.frame_size, 8) * cam.queue_length
       /\ \A i \in 1 .. Len(hwq) :
            /\ cam.buffer <= hwq[i][1]
            /\ hwq[i][1] + hwq[i][2] <= cam.buffer + cam.buffer_size

====
